---- MODULE Spec2Model ----
(***************************************************************************)
(* Model of cobase: the write batcher of a persisted class                 *)
(* (src/src/Persisted.ts, dbPut / dbGet), the entity store's versioning    *)
(* (loadLatestLocalData, clearCache, set value) and the incremental        *)
(* indexer (src/src/Index.ts).                                             *)
(***************************************************************************)
EXTENDS Integers, Sequences, FiniteSets, TLC

\* ------------------------------------------------------------------------
\* Bounds of the model
\* ------------------------------------------------------------------------
MaxOps == 2
MaxIndexOps == 3
MaxRestarts == 1
MaxInstances == 3
MaxVersion == 4
MaxBurst == 250
MaxEntries == 2
MaxQueued == 40

\* ------------------------------------------------------------------------
\* Program constants
\* ------------------------------------------------------------------------
LAST_VERSION_IN_DB_KEY == 0
MaxBatchWrites == 100
MaxBatchBytes == 100000
DEFAULT_INDEXING_CONCURRENCY == 15

Ids == {1, 2}
Jsons == {"a", "B"}
NoValue == [version |-> 0, json |-> "-"]

Max(a, b) == IF a >= b THEN a ELSE b
Min(a, b) == IF a <= b THEN a ELSE b

RECURSIVE Digits(_)
Digits(n) == IF n < 10 THEN 1 ELSE 1 + Digits(n \div 10)

\* length of the JSON text of a value: "a" is a short document, "B" a large one
JsonLength(j) == IF j = "B" THEN 60000 ELSE 7

\* value.length of the row string: "<version>,<json>", or "<version>" alone
\* for a version-only invalidation row (json "-")
ValueLength(v) ==
    IF v.json = "-" THEN Digits(v.version)
    ELSE Digits(v.version) + 1 + JsonLength(v.json)

VARIABLES
    lastVersion,        \* Class.lastVersion
    nextVersion,        \* the last version handed out by getNextVersion()
    batches,            \* every write batch ever opened, by batch number
    pendingWrites,      \* Class.pendingWrites: batch numbers, oldest first
    currentWriteBatch,  \* Class.currentWriteBatch: batch number, 0 = null
    writeCompletion,    \* Class.writeCompletion: promise of batch n, 0 = null
    db,                 \* the engine's table: id -> row, NoValue = absent
    dbLastVersion,      \* the row stored at LAST_VERSION_IN_DB_KEY
    handed,             \* the batches passed to db.batch(), in call order
    onDbFailureCalls,   \* number of calls of Class.onDbFailure
    opCount,            \* number of dbPut calls so far
    maxCommitted,       \* history: highest row version the engine committed
    maxWritten,         \* history: highest row version passed to dbPut
    versionProperty,    \* KeyValued's versionProperty: 'version' or 'cachedVersion'
    entities,           \* the live instance of each id: its fields
    pendingAdded,       \* AddedEvents waiting for their dbPut to complete
    queue,              \* Index.queue: the IndexRequests, in Map order
    inFlight,           \* requests taken from the queue, indexEntry not finished
    operations,         \* the index's pending put/del operations
    lastIndexedVersion, \* highest version of a request indexEntry has finished
    queuedIndexedProgress, \* Index.queuedIndexedProgress, 0 = null
    whenIndexedProgress,   \* progress a pending whenIndexedProgress will stage, 0 = none
    indexBatch,         \* the index batch at the engine: its operations
    indexDb,            \* the index table: <<index key, source id>> -> value
    indexedVersionInDb, \* the row stored at LAST_INDEXED_VERSION_KEY
    indexState,         \* Index.state
    whenProcessingComplete, \* Index.whenProcessingComplete is set
    processing,         \* where processQueue stands
    restarts,           \* number of process restarts so far
    instancesById,      \* id -> the instance the class's map holds for it, 0 if none
    instanceId,         \* the id of every instance constructed so far
    held,               \* the instances the caller holds a reference to
    lastFor,            \* id -> what for(id) last returned, 0 once it is gone from the map
    registration,       \* the class's registration and the state record of its table
    sourceTable,        \* the rows and lastVersion of the table of the class's Source
    rebuilt,            \* Index.rebuilt
    cancelIndexing,     \* Index.cancelIndexing
    clearedOver,        \* history: the operations pending when the index table was cleared
    failed,             \* history: the ids whose indexEntry has thrown
    written,            \* history: the last set value, its row and its batch
    down,               \* an index whose Source is the index: state, queue, pass
    access,             \* the last call through the proxy of allow(): its outcome
    entryCall,          \* the last indexEntry over entry lists: its input and its operations
    pass,               \* processQueue over a long queue: its counters
    changedAt,          \* history: id -> version of the last operation the engine committed on its row
    event,              \* the event of the last updated(event) or remove(id) of a class that tracks previous values
    lastSet             \* history: the instance of the last set value, and whether the map held it

bvars == <<lastVersion, nextVersion, batches, pendingWrites, currentWriteBatch,
           writeCompletion, db, dbLastVersion, handed,
           onDbFailureCalls, opCount, maxCommitted, maxWritten>>

evars == <<versionProperty, entities>>
\* the instances of the class, its registration
ovars == <<instancesById, instanceId, held, lastFor, registration, sourceTable>>
\* the index's rebuild and cancel flags
rvars == <<rebuilt, cancelIndexing, clearedOver, failed>>
hvars == <<written>>
dvars == <<down>>
\* the last call made through a class wrapped by allow()
avars == <<access>>
\* indexEntry and processQueue taken alone
pvars == <<entryCall, pass>>
\* what the engine has committed, by id, and the last event
cvars == <<changedAt, event, lastSet>>
yvars == <<avars, pvars, cvars>>
xvars == <<ovars, rvars, hvars, dvars, yvars>>
ivars == <<pendingAdded, queue, inFlight, operations, lastIndexedVersion,
           queuedIndexedProgress, whenIndexedProgress, indexBatch, indexDb,
           indexedVersionInDb, indexState, whenProcessingComplete, processing,
           restarts>>

NoOp == [type |-> "none", value |-> NoValue, version |-> 0]

\* a batch just opened by dbPut: an empty Map with writes = 0, writeSize = 0
NewBatch(lastWriteCompletion) ==
    [ops |-> [k \in Ids |-> NoOp],
     order |-> <<>>,
     writes |-> 0,
     writeSize |-> 0,
     state |-> "open",
     lastWriteCompletion |-> lastWriteCompletion,
     operations |-> <<>>]

BatchInit ==
    /\ lastVersion = 0
    /\ nextVersion = 0
    /\ batches = <<>>
    /\ pendingWrites = <<>>
    /\ currentWriteBatch = 0
    /\ writeCompletion = 0
    /\ db = [k \in Ids |-> NoValue]
    /\ dbLastVersion = 0
    /\ handed = <<>>
    /\ onDbFailureCalls = 0
    /\ opCount = 0
    /\ maxCommitted = 0
    /\ maxWritten = 0

\* ------------------------------------------------------------------------
\* Write batcher: Persisted.ts dbPut / dbGet
\* ------------------------------------------------------------------------

\* when(lastWriteCompletion, ...): a promise is waited for, null is not
WaitsForNothing(lastWriteCompletion) == FALSE
WaitsFor(lastWriteCompletion) == lastWriteCompletion # 0

\* the put of the class's lastVersion appended to every batch
NoMarkerPut(lv) == <<>>
\* a marker that lags the class's lastVersion by one
MarkerPutBehind(lv) ==
    <<[type |-> "put", key |-> LAST_VERSION_IN_DB_KEY,
       value |-> [version |-> lv - 1, json |-> "-"]]>>
MarkerPut(lv) ==
    <<[type |-> "put", key |-> LAST_VERSION_IN_DB_KEY,
       value |-> [version |-> lv, json |-> "-"]]>>

\* a list that holds the first operation of the Map only
BatchOperationsFirstOnly(batch, order) ==
    IF order = <<>> THEN <<>>
    ELSE <<[type |-> batch.ops[Head(order)].type, key |-> Head(order),
            value |-> batch.ops[Head(order)].value]>>

BatchOperations(batch, order) ==
    [i \in 1..Len(order) |->
        [type |-> batch.ops[order[i]].type, key |-> order[i],
         value |-> batch.ops[order[i]].value]]

\* the body of the when(lastWriteCompletion, ...) callback up to db.batch()
Flushed(batch, lv) ==
    [batch EXCEPT !.state = "writing",
                  !.operations = BatchOperations(batch, batch.order) \o MarkerPut(lv)]

InOrder(order, key) == \E i \in 1..Len(order) : order[i] = key

\* the flush test of dbPut, with JavaScript's short-circuit evaluation
FlushTriggered(writes, value, size) ==
    \/ writes > MaxBatchWrites
    \/ (value # NoValue /\ size > MaxBatchBytes)

\* getNextVersion() after a dbPut(key, value, version) that allocated one if
\* it was given no version
NextVersionAfterPut(version) ==
    IF version # 0 THEN Max(nextVersion, version) ELSE nextVersion + 1

\* this.lastVersion = Math.max(this.lastVersion || 0, version || getNextVersion())
NewLastVersion(lv, v) == Max(lv, v)

DbPut(key, value, version) ==
    LET v == IF version # 0 THEN version ELSE nextVersion + 1
        isNew == currentWriteBatch = 0
        b == IF isNew THEN Len(batches) + 1 ELSE currentWriteBatch
        opened == IF isNew THEN Append(batches, NewBatch(writeCompletion))
                  ELSE batches
        old == opened[b]
        size == IF ~(old.writes > MaxBatchWrites) /\ value # NoValue
                THEN old.writeSize + ValueLength(value) ELSE old.writeSize
        put == [type |-> IF value = NoValue THEN "remove" ELSE "put",
                value |-> value, version |-> v]
        recorded == [old EXCEPT
                       !.ops = [k \in DOMAIN @ \cup {key} |->
                                   IF k = key THEN put ELSE @[k]],
                       !.order = IF InOrder(@, key) THEN @ ELSE Append(@, key),
                       !.writes = @ + 1,
                       !.writeSize = size]
        commits == FlushTriggered(old.writes, value, size) /\ old.state = "open"
        startsNow == commits /\ ~WaitsFor(old.lastWriteCompletion)
        lv == NewLastVersion(lastVersion, v)
        final == IF startsNow THEN Flushed(recorded, lv)
                 ELSE IF commits THEN [recorded EXCEPT !.state = "committing"]
                 ELSE recorded
    IN  /\ lastVersion' = lv
        /\ batches' = [opened EXCEPT ![b] = final]
        /\ pendingWrites' = IF isNew THEN Append(pendingWrites, b) ELSE pendingWrites
        /\ writeCompletion' = IF isNew THEN b ELSE writeCompletion
        /\ currentWriteBatch' = IF startsNow THEN 0 ELSE b
        /\ handed' = IF startsNow THEN Append(handed, b) ELSE handed
        /\ opCount' = opCount + 1
        /\ maxWritten' = IF value # NoValue THEN Max(maxWritten, value.version)
                         ELSE maxWritten
        /\ UNCHANGED <<db, dbLastVersion, onDbFailureCalls, maxCommitted>>

\* (PutRow passes a version the caller holds: an old one, 1, or a fresh one)
\* set value -> Class.dbPut(this.id, version + ',' + json, version)
PutRow ==
    /\ opCount < MaxOps
    /\ \E key \in Ids, json \in Jsons, version \in {1, nextVersion + 1} :
          /\ DbPut(key, [version |-> version, json |-> json], version)
          /\ nextVersion' = NextVersionAfterPut(version)
    /\ UNCHANGED <<evars, xvars, ivars>>

\* remove(id) -> this.dbPut(id): no value, no version
PutRemove ==
    /\ opCount < MaxOps
    /\ \E key \in Ids : DbPut(key, NoValue, 0)
    /\ nextVersion' = NextVersionAfterPut(0)
    /\ UNCHANGED <<evars, xvars, ivars>>

\* the promise of batch b has resolved: finished() calls resolve() in both the
\* fulfilment and the rejection handler of db.batch(), and nothing calls reject
ResolvedWhenWritten(b) == b # 0 /\ batches[b].state = "done"
Resolved(b) == b # 0 /\ batches[b].state \in {"done", "failed"}
Rejected(b) == FALSE

\* the dbPut of a new entity has completed and its AddedEvent is not sent yet:
\* the callback was registered on the batch's promise by the setter, ahead
\* of any reaction of the caller
AddedEventDue == pendingAdded # <<>> /\ Resolved(Head(pendingAdded).batch)

\* indexEntry awaits nothing for a deleted entity without previous state
AwaitsNothing(request) == request.deleted /\ request.previousState = "-"

\* promise reactions that need no I/O are queued: an AddedEvent; the chain of
\* requestProcessing that starts processQueue; an indexEntry that awaits
\* nothing; commitOperations once every indexEntry is done; the wait for
\* whenIndexedProgress; the end of the round; the start and the end of a
\* round of the downstream index.
\* Timers and engine callbacks run only when no such reaction is left.
ReactionsQueued ==
    \/ AddedEventDue
    \/ down.state = "pending" /\ ~down.awaits
    \/ down.state = "processed"
    \/ processing \in {"scheduled", "progress", "returned"}
    \/ /\ processing = "indexing"
       /\ (inFlight = {} \/ \E request \in inFlight : AwaitsNothing(request))

\* the 20 ms timer of an open batch fires: currentWriteBatch.commitOperations()
CommitTimer ==
    \E b \in 1..Len(batches) :
        /\ ~ReactionsQueued
        /\ batches[b].state = "open"
        /\ IF WaitsFor(batches[b].lastWriteCompletion)
           THEN /\ batches' = [batches EXCEPT ![b].state = "committing"]
                /\ UNCHANGED <<currentWriteBatch, handed>>
           ELSE /\ batches' = [batches EXCEPT ![b] = Flushed(@, lastVersion)]
                /\ currentWriteBatch' = 0
                /\ handed' = Append(handed, b)
        /\ UNCHANGED <<lastVersion, nextVersion, pendingWrites, writeCompletion,
                       db, dbLastVersion, onDbFailureCalls, opCount, maxCommitted,
                       maxWritten, evars, xvars, ivars>>

\* the previous batch's completion has resolved: the waiting callback runs
StartWrite ==
    \E b \in 1..Len(batches) :
        /\ batches[b].state = "committing"
        /\ Resolved(batches[b].lastWriteCompletion)
        /\ batches' = [batches EXCEPT ![b] = Flushed(@, lastVersion)]
        /\ currentWriteBatch' = 0
        /\ handed' = Append(handed, b)
        /\ UNCHANGED <<lastVersion, nextVersion, pendingWrites, writeCompletion,
                       db, dbLastVersion, onDbFailureCalls, opCount, maxCommitted,
                       maxWritten, evars, xvars, ivars>>

\* the last operation of the list on a key
LastOn(list, key) ==
    list[CHOOSE i \in 1..Len(list) :
            /\ list[i].key = key
            /\ \A j \in (i + 1)..Len(list) : list[j].key # key]
OperationKeys(list) == {list[i].key : i \in 1..Len(list)}

\* the table after the engine applied the operations in their order
ApplyBatch(table, list) ==
    LET keys == OperationKeys(list) \ {LAST_VERSION_IN_DB_KEY}
    IN [k \in DOMAIN table \cup keys |->
           IF k \notin keys THEN table[k]
           ELSE IF LastOn(list, k).type = "put" THEN LastOn(list, k).value
           ELSE NoValue]

\* the lastVersion marker after the engine applied the operations
MarkerOf(current, list) ==
    IF LAST_VERSION_IN_DB_KEY \in OperationKeys(list)
    THEN LastOn(list, LAST_VERSION_IN_DB_KEY).value.version
    ELSE current

\* the largest version among the rows the operations put
MaxRowVersion(list) ==
    LET versions == {list[i].value.version : i \in
                       {n \in 1..Len(list) :
                           /\ list[n].key # LAST_VERSION_IN_DB_KEY
                           /\ list[n].type = "put"}}
    IN IF versions = {} THEN 0
       ELSE CHOOSE v \in versions : \A w \in versions : w <= v

IndexOf(seq, x) ==
    IF \E i \in 1..Len(seq) : seq[i] = x
    THEN CHOOSE i \in 1..Len(seq) : seq[i] = x /\ \A j \in 1..(i - 1) : seq[j] # x
    ELSE 0

\* pendingWrites.splice(pendingWrites.indexOf(batch), 1); splice(-1, 1) drops
\* the last element
SpliceOut(seq, x) ==
    LET i == IF IndexOf(seq, x) = 0 THEN Len(seq) ELSE IndexOf(seq, x)
    IN IF seq = <<>> THEN seq
       ELSE [j \in 1..(Len(seq) - 1) |-> IF j < i THEN seq[j] ELSE seq[j + 1]]

\* finished(): pop the batch, clear writeCompletion if it is still ours; the
\* caller marks the batch done or failed, which is resolve()
Finished(b) ==
    /\ pendingWrites' = SpliceOut(pendingWrites, b)
    /\ writeCompletion' = IF writeCompletion = b THEN 0 ELSE writeCompletion

\* db.batch(operations) fulfils: the whole batch is in the table
BatchWrittenBody(b) ==
    /\ ~ReactionsQueued
    /\ batches[b].state = "writing"
    /\ db' = ApplyBatch(db, batches[b].operations)
    /\ dbLastVersion' = MarkerOf(dbLastVersion, batches[b].operations)
    /\ maxCommitted' = Max(maxCommitted, MaxRowVersion(batches[b].operations))
    /\ batches' = [batches EXCEPT ![b].state = "done"]
    /\ Finished(b)
    /\ UNCHANGED <<lastVersion, nextVersion, currentWriteBatch, handed,
                   onDbFailureCalls, opCount, maxWritten, evars, ivars>>
BatchWritten == \E b \in 1..Len(batches) : BatchWrittenBody(b) /\ UNCHANGED xvars

\* the version of the operation the engine applied last on each row: the
\* version of the row it put, or the version dbPut gave to the remove
ChangedBy(batch) ==
    [id \in Ids |->
        IF id \notin OperationKeys(batch.operations) THEN changedAt[id]
        ELSE IF batch.ops[id].type = "put" THEN batch.ops[id].value.version
        ELSE batch.ops[id].version]
\* db.batch(operations) fulfils, and the history of the rows is kept
BatchWrittenNoted ==
    \E b \in 1..Len(batches) :
        /\ BatchWrittenBody(b)
        /\ changedAt' = ChangedBy(batches[b])
        /\ UNCHANGED <<ovars, rvars, hvars, dvars, avars, pvars, event, lastSet>>

\* db.batch(operations) rejects: console.error(error); finished()
BatchFailed ==
    \E b \in 1..Len(batches) :
        /\ ~ReactionsQueued
        /\ batches[b].state = "writing"
        /\ batches' = [batches EXCEPT ![b].state = "failed"]
        /\ Finished(b)
        /\ UNCHANGED <<lastVersion, nextVersion, currentWriteBatch, handed,
                       db, dbLastVersion, onDbFailureCalls, opCount, maxCommitted,
                       maxWritten, evars, xvars, ivars>>

\* dbGet(key): the newest pending batch holding the key, else the engine
RECURSIVE PendingValue(_, _, _)
PendingValue(pending, i, key) ==
    IF i = 0 THEN [found |-> FALSE, value |-> NoValue]
    ELSE IF batches[pending[i]].ops[key].type # "none"
         THEN [found |-> TRUE, value |-> batches[pending[i]].ops[key].value]
         ELSE PendingValue(pending, i - 1, key)

DbGetOldestFirst(key) ==
    LET first == IF \E i \in 1..Len(pendingWrites) :
                       batches[pendingWrites[i]].ops[key].type # "none"
                 THEN CHOOSE i \in 1..Len(pendingWrites) :
                       /\ batches[pendingWrites[i]].ops[key].type # "none"
                       /\ \A j \in 1..(i - 1) :
                             batches[pendingWrites[j]].ops[key].type = "none"
                 ELSE 0
    IN IF first = 0 THEN db[key] ELSE batches[pendingWrites[first]].ops[key].value
DbGet(key) ==
    LET p == PendingValue(pendingWrites, Len(pendingWrites), key)
    IN IF p.found THEN p.value ELSE db[key]

\* ------------------------------------------------------------------------
\* Entity store: Persisted.ts KeyValued (one instance per id)
\* ------------------------------------------------------------------------
\* the ids whose instances the entity operations act on
LiveIds == {1}

\* cachedValue: _cachedValue holds the value (the parse of asJSON)
NewEntity ==
    [version |-> 0, cachedVersion |-> 0, readyState |-> "none", asJSON |-> "-",
     cachedValue |-> FALSE]

EntityIdle ==
    /\ versionProperty = "version"
    /\ entities = [id \in LiveIds |-> NewEntity]

\* this[versionProperty]
GetVersionProperty(e) ==
    IF versionProperty = "version" THEN e.version ELSE e.cachedVersion
SetVersionProperty(e, v) ==
    IF versionProperty = "version" THEN [e EXCEPT !.version = v]
    ELSE [e EXCEPT !.cachedVersion = v]

\* a load that takes the JSON of the row and leaves the versions
LoadedWithoutVersion(e, row) ==
    [e EXCEPT !.readyState = "up-to-date", !.asJSON = row.json]
\* the assignments of loadLatestLocalData for a row that holds JSON
LoadedWithJSON(e, row) ==
    [SetVersionProperty([e EXCEPT !.readyState = "up-to-date",
                                  !.version = Max(row.version, e.version)],
                        row.version)
       EXCEPT !.asJSON = row.json]

\* valueOf() of an instance with no readyState: loadLatestLocalData()
LoadLatestLocalData ==
    \E id \in LiveIds :
        LET e == entities[id]
            row == DbGet(id)
        IN /\ e.readyState = "none"
           /\ IF row # NoValue /\ row.json # "-"
              THEN /\ entities' = [entities EXCEPT ![id] = LoadedWithJSON(e, row)]
                   /\ UNCHANGED nextVersion
              ELSE IF row # NoValue
              THEN /\ entities' = [entities EXCEPT ![id] =
                          [e EXCEPT !.version = Max(row.version, e.version),
                                    !.readyState = "invalidated"]]
                   /\ UNCHANGED nextVersion
              ELSE /\ nextVersion < MaxVersion
                   /\ nextVersion' = nextVersion + 1
                   /\ entities' = [entities EXCEPT ![id] =
                          [e EXCEPT !.version = nextVersion + 1,
                                    !.readyState = "no-local-data"]]
           /\ UNCHANGED <<lastVersion, batches, pendingWrites, currentWriteBatch,
                          writeCompletion, db, dbLastVersion, handed,
                          onDbFailureCalls, opCount, maxCommitted, maxWritten,
                          versionProperty, ivars, xvars>>

\* updated(new ReplacedEvent()) on an instance: the version is incremented,
\* then resetCache() runs: nothing for Persisted; for Cached a second
\* updateVersion() and a version-only row
UpdatedBody(id) ==
    LET e == entities[id]
    IN /\ e.readyState # "none"
       /\ IF versionProperty = "version"
          THEN /\ nextVersion < MaxVersion
               /\ nextVersion' = nextVersion + 1
               /\ entities' = [entities EXCEPT ![id].version = nextVersion + 1]
               /\ UNCHANGED <<lastVersion, batches, pendingWrites,
                              currentWriteBatch, writeCompletion, handed,
                              opCount, maxWritten>>
          ELSE /\ nextVersion + 1 < MaxVersion
               /\ opCount < MaxOps
               /\ entities' = [entities EXCEPT ![id] =
                      [e EXCEPT !.version = nextVersion + 2, !.asJSON = "-",
                                !.cachedValue = FALSE]]
               /\ DbPut(id, [version |-> nextVersion + 2, json |-> "-"],
                        nextVersion + 2)
               /\ nextVersion' = nextVersion + 2
       /\ UNCHANGED <<db, dbLastVersion, onDbFailureCalls, maxCommitted,
                      versionProperty, ivars>>
Updated == \E id \in LiveIds : UpdatedBody(id) /\ UNCHANGED xvars

\* set value(v) with a truthy v on the canonical instance
SetValueBody(id, json) ==
    LET e == entities[id]
        newToCache == e.readyState \in {"none", "no-local-data"}
        version == GetVersionProperty(e)
    IN /\ opCount < MaxOps
       /\ version > 0
       /\ entities' = [entities EXCEPT ![id] =
              [e EXCEPT !.readyState = IF newToCache THEN "loading-local-data"
                                       ELSE @,
                        !.asJSON = json,
                        !.cachedValue = TRUE]]
       /\ DbPut(id, [version |-> version, json |-> json], version)
       /\ nextVersion' = NextVersionAfterPut(version)
       /\ UNCHANGED <<versionProperty, ivars>>
SetValue ==
    \E id \in LiveIds, json \in Jsons :
        SetValueBody(id, json) /\ UNCHANGED xvars

ClearCache ==
    \E id \in LiveIds :
        /\ entities' = [entities EXCEPT ![id] =
               [@ EXCEPT !.asJSON = "-",
                         !.cachedValue = FALSE,
                         !.cachedVersion = -1,
                         !.readyState = IF @ \in {"up-to-date", "invalidated"}
                                        THEN "none" ELSE @]]
        /\ entities' # entities
        /\ UNCHANGED <<bvars, versionProperty, ivars, xvars>>

\* what valueOf() of the instance yields: an instance with no readyState
\* first loads the row (loadLatestLocalData), any other answers from
\* _cachedValue or, when that is empty, from the parse of asJSON; "-" is
\* undefined
ValueOf(id) ==
    LET e == entities[id]
    IN IF e.readyState = "none" THEN DbGet(id).json ELSE e.asJSON

\* --- a class that tracks previous values (updateWithPrevious) ----------------
\* the batch that receives the next dbPut
TargetBatch == IF currentWriteBatch = 0 THEN Len(batches) + 1 ELSE currentWriteBatch
\* the getter of the value property: _cachedValue is filled from asJSON
ReadValue ==
    \E id \in LiveIds :
        /\ entities[id].readyState # "none"
        /\ entities[id].asJSON # "-"
        /\ ~entities[id].cachedValue
        /\ entities' = [entities EXCEPT ![id].cachedValue = TRUE]
        /\ UNCHANGED <<bvars, versionProperty, ivars, xvars>>

\* the value loadLocalData() reads for the instance of id
LocalData(id) == DbGet(id).json
\* assignPreviousValue(event): what previousValues.set(this, ...) receives
AssignPreviousValue(id) ==
    LET e == entities[id]
    IN IF e.readyState = "up-to-date" /\ e.cachedValue THEN e.asJSON
       ELSE LocalData(id)

\* the value of the entity of id: the one its instance holds, or else the
\* one of its row
ValueBefore(id) ==
    IF entities[id].asJSON # "-" THEN entities[id].asJSON ELSE DbGet(id).json

NoEvent ==
    [type |-> "none", id |-> 0, previousValues |-> "-", valueBefore |-> "-",
     whenWritten |-> 0, batch |-> 0]

\* event.whenWritten = Class.writeCompletion, the last statement of
\* updated(): the class's writeCompletion after resetCache() has run
WhenWrittenBeforeReset(before, after) == before
WhenWritten(before, after) == after

\* what the other state holds across an updated(event) or a remove(id)
TrackedUnchanged ==
    UNCHANGED <<ovars, rvars, hvars, dvars, avars, pvars, changedAt, lastSet>>

\* updated(new ReplacedEvent()) on an instance of the class: the previous
\* value is assigned first, whenWritten last; valueBefore and batch are
\* history: the value of the entity before the call, and the batch that
\* holds the row the call has written (0 if it wrote none)
UpdatedTracked ==
    \E id \in LiveIds :
        /\ UpdatedBody(id)
        /\ event' = [type |-> "replaced", id |-> id,
                     previousValues |-> AssignPreviousValue(id),
                     valueBefore |-> ValueBefore(id),
                     whenWritten |-> WhenWritten(writeCompletion, writeCompletion'),
                     batch |-> IF versionProperty = "version" THEN 0
                               ELSE TargetBatch]
        /\ TrackedUnchanged

\* Class.remove(id): the instance of for(id) assigns its previous value, the
\* delete row is put, the instance leaves the map and the class's
\* updated(event, entity) notifies the listeners; it assigns no whenWritten
RemoveTracked ==
    \E id \in LiveIds :
        /\ opCount < MaxOps
        /\ nextVersion + 1 < MaxVersion
        /\ DbPut(id, NoValue, 0)
        /\ nextVersion' = nextVersion + 2
        /\ entities' = [entities EXCEPT ![id] = NewEntity]
        /\ event' = [type |-> "deleted", id |-> id,
                     previousValues |-> AssignPreviousValue(id),
                     valueBefore |-> ValueBefore(id),
                     whenWritten |-> 0,
                     batch |-> TargetBatch]
        /\ UNCHANGED <<versionProperty, ivars>>
        /\ TrackedUnchanged

\* ------------------------------------------------------------------------
\* Incremental indexer: Index.ts, an index over the class as its Source
\* ------------------------------------------------------------------------
IndexKeys == <<"k1", "k2", "k3">>
Absent == "~"

\* indexBy of the index: the {key, value} entries of a source value, as a map
\* from index key to the JSON of the entry's value ('' for no value)
IndexBy(json) ==
    IF json = "a" THEN [k \in {"k1", "k2", "k3"} |->
                          IF k = "k1" THEN "" ELSE IF k = "k2" THEN "p" ELSE Absent]
    ELSE IF json = "B" THEN [k \in {"k1", "k2", "k3"} |->
                          IF k = "k1" THEN Absent ELSE IF k = "k2" THEN "q" ELSE ""]
    ELSE [k \in {"k1", "k2", "k3"} |-> Absent]

IndexRows == {"k1", "k2", "k3"} \X Ids

\* the index, registered over empty tables, after its first resumeIndex
IndexIdle ==
    /\ pendingAdded = <<>>
    /\ queue = <<>>
    /\ inFlight = {}
    /\ operations = <<>>
    /\ lastIndexedVersion = 0
    /\ queuedIndexedProgress = 0
    /\ whenIndexedProgress = 0
    /\ indexBatch = <<>>
    /\ indexDb = [r \in IndexRows |-> Absent]
    /\ indexedVersionInDb = 0
    /\ indexState = "ready"
    /\ whenProcessingComplete = FALSE
    /\ processing = "idle"
    /\ restarts = 0

\* --- the queue ------------------------------------------------------------
QueueHas(q, id) == \E i \in 1..Len(q) : q[i].id = id
QueueGet(q, id) == q[CHOOSE i \in 1..Len(q) : q[i].id = id]
QueueWithout(q, id) == SelectSeq(q, LAMBDA r : r.id # id)
Requests(q) == {q[i] : i \in 1..Len(q)}

\* requestProcessing(nice): schedules processQueue unless a round is under way
ProcessingRequested ==
    IF whenProcessingComplete
    THEN UNCHANGED <<indexState, whenProcessingComplete, processing>>
    ELSE /\ indexState' = "pending"
         /\ whenProcessingComplete' = TRUE
         /\ processing' = "scheduled"

\* Index.updated(event, by) for an event of a source instance
IndexUpdated(id, type, version, previousState) ==
    LET existing == QueueHas(queue, id)
        request == IF existing
                   THEN [QueueGet(queue, id) EXCEPT !.version = version,
                                                    !.deleted = (type = "deleted")]
                   ELSE [id |-> id, previousState |-> previousState,
                         version |-> version, deleted |-> (type = "deleted")]
    IN /\ queue' = Append(QueueWithout(queue, id), request)
       /\ IF existing
          THEN UNCHANGED <<indexState, whenProcessingComplete, processing>>
          ELSE ProcessingRequested

\* --- mutations of the Source ------------------------------------------------
\* the value of an entity as valueOf() and loadLocalData() see it
CurrentJson(id) == DbGet(id).json

\* set value on an entity with no local data: the row is put, the AddedEvent
\* is sent once the dbPut has completed
SetNew ==
    \E id \in Ids, json \in Jsons :
        /\ opCount < MaxIndexOps
        /\ ~AddedEventDue
        /\ DbGet(id) = NoValue
        /\ DbPut(id, [version |-> nextVersion + 1, json |-> json], nextVersion + 1)
        /\ nextVersion' = nextVersion + 1
        /\ pendingAdded' = Append(pendingAdded,
                                  [id |-> id, version |-> nextVersion + 1,
                                   batch |-> TargetBatch])
        /\ UNCHANGED <<evars, xvars, queue, inFlight, operations, lastIndexedVersion,
                       queuedIndexedProgress, whenIndexedProgress, indexBatch,
                       indexDb, indexedVersionInDb, indexState,
                       whenProcessingComplete, processing, restarts>>

\* the dbPut of a new entity has completed: Class.updated(AddedEvent, entity)
AddedEventSent ==
    /\ AddedEventDue
    /\ IndexUpdated(Head(pendingAdded).id, "added", Head(pendingAdded).version, "-")
    /\ pendingAdded' = Tail(pendingAdded)
    /\ UNCHANGED <<bvars, evars, xvars, inFlight, operations, lastIndexedVersion,
                   queuedIndexedProgress, whenIndexedProgress, indexBatch, indexDb,
                   indexedVersionInDb, restarts>>

\* an existing entity is given a new value: updated(event) captures the
\* previous value and notifies the index, the new value is written through
Replace ==
    \E id \in Ids, json \in Jsons :
        /\ opCount < MaxIndexOps
        /\ ~AddedEventDue
        /\ DbGet(id) # NoValue
        /\ IndexUpdated(id, "replaced", nextVersion + 1, CurrentJson(id))
        /\ DbPut(id, [version |-> nextVersion + 1, json |-> json], nextVersion + 1)
        /\ nextVersion' = nextVersion + 1
        /\ UNCHANGED <<evars, xvars, pendingAdded, inFlight, operations, lastIndexedVersion,
                       queuedIndexedProgress, whenIndexedProgress, indexBatch,
                       indexDb, indexedVersionInDb, restarts>>

\* Class.remove(id): previous value captured, dbPut(id), DeletedEvent with the
\* class's new version
Remove ==
    \E id \in Ids :
        /\ opCount < MaxIndexOps
        /\ ~AddedEventDue
        /\ IndexUpdated(id, "deleted", nextVersion + 2, CurrentJson(id))
        /\ DbPut(id, NoValue, 0)
        /\ nextVersion' = nextVersion + 2
        /\ UNCHANGED <<evars, xvars, pendingAdded, inFlight, operations, lastIndexedVersion,
                       queuedIndexedProgress, whenIndexedProgress, indexBatch,
                       indexDb, indexedVersionInDb, restarts>>

\* --- indexEntry ---------------------------------------------------------
RECURSIVE EntryPuts(_, _, _, _)
EntryPuts(keys, id, toRemove, entries) ==
    IF keys = <<>> THEN <<>>
    ELSE LET key == Head(keys)
         IN (IF entries[key] # Absent
                /\ (toRemove[key] = Absent \/ entries[key] # toRemove[key])
             THEN <<[type |-> "put", key |-> key, id |-> id, value |-> entries[key]]>>
             ELSE <<>>)
            \o EntryPuts(Tail(keys), id, toRemove, entries)

RECURSIVE EntryDels(_, _, _, _)
EntryDels(keys, id, toRemove, entries) ==
    IF keys = <<>> THEN <<>>
    ELSE LET key == Head(keys)
         IN (IF toRemove[key] # Absent /\ entries[key] = Absent
             THEN <<[type |-> "del", key |-> key, id |-> id, value |-> Absent]>>
             ELSE <<>>)
            \o EntryDels(Tail(keys), id, toRemove, entries)

\* the operations indexEntry(id, indexRequest) pushes when the entity's value
\* is json: puts of new or changed entries, then dels of what is left of toRemove
EntryOperations(request, json) ==
    LET toRemove == IndexBy(request.previousState)
        entries == IF request.deleted THEN IndexBy("-") ELSE IndexBy(json)
    IN EntryPuts(IndexKeys, request.id, toRemove, entries)
       \o EntryDels(IndexKeys, request.id, toRemove, entries)

\* one spawned indexEntry runs to its end
IndexEntry ==
    \E request \in inFlight :
        /\ processing = "indexing" \/ cancelIndexing
        /\ AwaitsNothing(request) \/ ~AddedEventDue
        /\ operations' = operations \o EntryOperations(request, CurrentJson(request.id))
        /\ lastIndexedVersion' = Max(request.version, lastIndexedVersion)
        /\ inFlight' = inFlight \ {request}
        /\ UNCHANGED <<bvars, evars, xvars, pendingAdded, queue, queuedIndexedProgress,
                       whenIndexedProgress, indexBatch, indexDb, indexedVersionInDb,
                       indexState, whenProcessingComplete, processing, restarts>>

\* --- indexEntry over the lists indexBy returns ------------------------------
\* indexBy(data) as an array of {key, value} entries: a key can occur twice;
\* the value is the JSON of entry.value, '' for none
EntryKeys == {"k1", "k2"}
EntryValues == {"", "p"}
Entries == [key : EntryKeys, value : EntryValues]
EntryLists == UNION {[1..n -> Entries] : n \in 0..MaxEntries}

\* a Map as the list of its entries in insertion order
MapHas(map, key) == \E i \in 1..Len(map) : map[i].key = key
MapGet(map, key) == map[CHOOSE i \in 1..Len(map) : map[i].key = key].value
MapSet(map, key, value) ==
    IF MapHas(map, key)
    THEN [i \in 1..Len(map) |-> IF map[i].key = key
                                 THEN [key |-> key, value |-> value] ELSE map[i]]
    ELSE Append(map, [key |-> key, value |-> value])
MapDelete(map, key) == SelectSeq(map, LAMBDA e : e.key # key)

\* toRemove after the loop over previousEntries
RECURSIVE ToRemove(_, _)
ToRemove(toRemove, previousEntries) ==
    IF previousEntries = <<>> THEN toRemove
    ELSE ToRemove(MapSet(toRemove, Head(previousEntries).key,
                         Head(previousEntries).value),
                  Tail(previousEntries))

\* every entry is put
PutsAlways(has, value, removedValue) == TRUE
\* removedValue === undefined || value != removedValue
PutNeeded(has, value, removedValue) == ~has \/ value # removedValue

\* the loop over entries: the puts pushed and what is left of toRemove
RECURSIVE EntryLoop(_, _, _)
EntryLoop(entries, toRemove, id) ==
    IF entries = <<>> THEN [ops |-> <<>>, toRemove |-> toRemove]
    ELSE LET entry == Head(entries)
             has == MapHas(toRemove, entry.key)
             removedValue == IF has THEN MapGet(toRemove, entry.key) ELSE ""
             rest == EntryLoop(Tail(entries), MapDelete(toRemove, entry.key), id)
         IN [ops |-> (IF PutNeeded(has, entry.value, removedValue)
                      THEN <<[type |-> "put", key |-> entry.key, id |-> id,
                              value |-> entry.value]>>
                      ELSE <<>>) \o rest.ops,
             toRemove |-> rest.toRemove]

\* the operations indexEntry(id, indexRequest) pushes: the puts of the loop
\* over the entries unless the request is deleted, then a del for every key
\* left in toRemove
IndexEntryPushes(previousEntries, entries, deleted, id) ==
    LET toRemove == ToRemove(<<>>, previousEntries)
        loop == IF deleted THEN [ops |-> <<>>, toRemove |-> toRemove]
                ELSE EntryLoop(entries, toRemove, id)
    IN loop.ops \o [i \in 1..Len(loop.toRemove) |->
                       [type |-> "del", key |-> loop.toRemove[i].key, id |-> id,
                        value |-> Absent]]

NoEntryCall ==
    [previous |-> <<>>, current |-> <<>>, deleted |-> FALSE, ops |-> <<>>,
     called |-> FALSE]

\* indexEntry(1, request) for a request whose previous state and whose
\* current value have these entries (one call is followed)
IndexOneEntry ==
    \E previous \in EntryLists, current \in EntryLists, deleted \in BOOLEAN :
        /\ ~entryCall.called
        /\ entryCall' = [previous |-> previous, current |-> current,
                         deleted |-> deleted,
                         ops |-> IndexEntryPushes(previous, current, deleted, 1),
                         called |-> TRUE]
        /\ UNCHANGED <<bvars, evars, ivars, ovars, rvars, hvars, dvars, avars, pass, cvars>>

\* --- the loop of processQueue over a long queue -----------------------------
\* The requests are counted, not told apart: queued, the size of the queue;
\* inFlight, the spawned indexEntry calls that have not finished; since,
\* sinceLastStateUpdate; uncommitted, the requests taken from the queue since
\* the last commitOperations. The k-th request ever spawned carries version k:
\* spawned counts them. hasOperations, operations.length > 0; batch, the
\* db.batch() of commitOperations in flight; staging, the values the pending
\* then() callbacks of sendUpdates() will assign, in commit order;
\* progressPending, this.whenIndexedProgress is not yet resolved; inDb, the row
\* LAST_INDEXED_VERSION. History: byBatch, the last value a batch has written
\* to that row.
NoCommit == [lastIndexed |-> 0, progress |-> 0]
NoPass ==
    [queued |-> 0, inFlight |-> 0, since |-> 0, uncommitted |-> 0,
     phase |-> "idle", spawned |-> 0, hasOperations |-> FALSE,
     lastIndexedVersion |-> 0, queuedIndexedProgress |-> 0,
     batch |-> NoCommit, staging |-> <<>>, progressPending |-> FALSE,
     inDb |-> 0, byBatch |-> 0]

\* for (let [id, indexRequest] of queue): each request is deleted from the
\* queue and its indexEntry spawned, until the queue is empty or
\* sinceLastStateUpdate++ > MAX_CONCURRENCY * 2 holds
RECURSIVE ForOfQueue(_)
ForOfQueue(p) ==
    IF p.queued = 0 THEN [p EXCEPT !.phase = "draining"]
    ELSE LET spawned == [p EXCEPT !.queued = @ - 1, !.inFlight = @ + 1,
                                  !.uncommitted = @ + 1, !.since = @ + 1,
                                  !.spawned = @ + 1]
         IN IF p.since > DEFAULT_INDEXING_CONCURRENCY * 2
            THEN [spawned EXCEPT !.phase = "awaiting"]
            ELSE ForOfQueue(spawned)

PassUnchanged ==
    UNCHANGED <<bvars, evars, ivars, ovars, rvars, hvars, dvars, avars, entryCall, cvars>>

\* processQueue starts over a queue of n requests and runs to its first yield
PassStart ==
    \E n \in 1..(MaxQueued - pass.spawned) :
        /\ pass.phase \in {"idle", "done"}
        /\ pass' = ForOfQueue([pass EXCEPT !.queued = n, !.since = 0,
                                           !.uncommitted = 0])
        /\ PassUnchanged

\* one spawned indexEntry finishes, with or without operations pushed:
\* lastIndexedVersion = Math.max(indexRequest.version, lastIndexedVersion).
\* The calls are taken to finish in the order they were spawned; the value is
\* read by commitOperations only, after Promise.all(indexingInProgress), when
\* it is the highest version spawned in any order.
PassEntryDone ==
    \E pushed \in BOOLEAN :
        /\ pass.inFlight > 0
        /\ pass' = [pass EXCEPT
               !.inFlight = @ - 1,
               !.hasOperations = @ \/ pushed,
               !.lastIndexedVersion = Max(pass.spawned - (pass.inFlight - 1), @)]
        /\ PassUnchanged

\* commitOperations(), up to its return: without operations the progress is
\* queued at once; with operations the batch takes the queued progress along
\* and is passed to the engine
PassCommitOperations(p, batched, empty) ==
    IF ~p.hasOperations
    THEN [p EXCEPT !.queuedIndexedProgress = p.lastIndexedVersion,
                   !.phase = empty]
    ELSE [p EXCEPT !.batch = [lastIndexed |-> p.queuedIndexedProgress,
                              progress |-> p.lastIndexedVersion],
                   !.queuedIndexedProgress = 0,
                   !.hasOperations = FALSE,
                   !.phase = batched]

\* Promise.all(indexingInProgress) has resolved inside the for loop:
\* sinceLastStateUpdate = 0 and commitOperations(); with no operations the
\* loop goes on to its next yield
PassCommitted ==
    /\ pass.phase = "awaiting"
    /\ pass.inFlight = 0
    /\ LET p == PassCommitOperations([pass EXCEPT !.since = 0, !.uncommitted = 0],
                                     "committing", "looping")
       IN pass' = IF p.phase = "looping" THEN ForOfQueue(p) ELSE p
    /\ PassUnchanged

\* Promise.all(indexingInProgress) has resolved after the for loop:
\* commitOperations()
PassDrained ==
    /\ pass.phase = "draining"
    /\ pass.inFlight = 0
    /\ pass' = PassCommitOperations([pass EXCEPT !.uncommitted = 0],
                                    "lastCommitting", "waiting")
    /\ PassUnchanged

\* the engine has written the batch, the row LAST_INDEXED_VERSION with it if
\* the batch holds one; the then() callback calls sendUpdates() and
\* whenIndexedProgress is the promise of its then()
PassBatchWritten ==
    /\ pass.phase \in {"committing", "lastCommitting"}
    /\ pass' = [pass EXCEPT
           !.inDb = IF pass.batch.lastIndexed # 0 THEN pass.batch.lastIndexed ELSE @,
           !.byBatch = IF pass.batch.lastIndexed # 0 THEN pass.batch.lastIndexed ELSE @,
           !.batch = NoCommit,
           !.staging = Append(@, pass.batch.progress),
           !.progressPending = TRUE,
           !.phase = IF pass.phase = "committing" THEN "resuming" ELSE "waiting"]
    /\ PassUnchanged

\* the promise sendUpdates() returns is fulfilled when it is returned: it is
\* Promise.all(whenWritten) and whenWritten stays empty, event.whenWritten
\* being the writeCompletion of the index's class, which register() sets to
\* null and only dbPut, which an index does not have, sets to a promise
UpdatesWrittenLater == FALSE
UpdatesWritten == TRUE

\* a then() callback of a fulfilled promise runs before the continuation of a
\* coroutine that is resumed afterwards
StagingFirst == UpdatesWritten /\ pass.staging # <<>>

\* the then() callback of sendUpdates(): this.queuedIndexedProgress =
\* indexedProgress, which resolves the whenIndexedProgress of that commit
PassStaged ==
    \E i \in 1..Len(pass.staging) :
        /\ pass' = [pass EXCEPT
               !.queuedIndexedProgress = pass.staging[i],
               !.staging = [j \in 1..(Len(@) - 1) |->
                               IF j < i THEN @[j] ELSE @[j + 1]],
               !.progressPending = @ /\ i # Len(pass.staging)]
        /\ PassUnchanged

\* the promise of commitOperations() has resolved inside the for loop: the
\* delay, and the loop goes on to its next yield
PassResumed ==
    /\ pass.phase = "resuming"
    /\ ~StagingFirst
    /\ pass' = ForOfQueue(pass)
    /\ PassUnchanged

\* yield this.whenIndexedProgress has resolved: the queued progress, if any,
\* is put into the row LAST_INDEXED_VERSION, and the pass is over
PassProgressStored ==
    /\ pass.phase = "waiting"
    /\ ~pass.progressPending
    /\ ~StagingFirst
    /\ pass' = [pass EXCEPT
           !.inDb = IF pass.queuedIndexedProgress # 0
                    THEN pass.queuedIndexedProgress ELSE @,
           !.queuedIndexedProgress = 0,
           !.phase = "done"]
    /\ PassUnchanged

\* --- processQueue -------------------------------------------------------
\* the promise chain of requestProcessing starts processQueue: every queued
\* request is taken from the queue and its indexEntry spawned; with
\* cancelIndexing set the pass returns after it has spawned the first
StartProcessing ==
    /\ processing = "scheduled"
    /\ indexState' = "processing"
    /\ IF cancelIndexing /\ queue # <<>>
       THEN /\ inFlight' = inFlight \cup {Head(queue)}
            /\ queue' = Tail(queue)
            /\ processing' = "returned"
       ELSE /\ inFlight' = Requests(queue)
            /\ queue' = <<>>
            /\ processing' = "indexing"
    /\ UNCHANGED <<bvars, evars, xvars, pendingAdded, operations, lastIndexedVersion,
                   queuedIndexedProgress, whenIndexedProgress, indexBatch, indexDb,
                   indexedVersionInDb, whenProcessingComplete, restarts>>

NoRequest == [id |-> 0, previousState |-> "-", version |-> 0, deleted |-> FALSE]
\* this.queue[0]: queue is a Map, which has no property 0
NextIndexRequest(q) == NoRequest

\* the indexedProgress commitOperations computes
IndexedProgress ==
    IF NextIndexRequest(queue) # NoRequest
    THEN Min(NextIndexRequest(queue).version - 1, lastIndexedVersion)
    ELSE lastIndexedVersion

\* Promise.all(indexingInProgress) has resolved: commitOperations()
CommitOperations ==
    /\ processing = "indexing"
    /\ inFlight = {}
    /\ IF operations = <<>>
       THEN /\ queuedIndexedProgress' = IndexedProgress
            /\ processing' = "progress"
            /\ UNCHANGED <<operations, indexBatch>>
       ELSE /\ indexBatch' = [ops |-> operations,
                              lastIndexed |-> queuedIndexedProgress,
                              progress |-> IndexedProgress]
            /\ operations' = <<>>
            /\ queuedIndexedProgress' = 0
            /\ processing' = "batch"
    /\ UNCHANGED <<bvars, evars, xvars, pendingAdded, queue, inFlight, lastIndexedVersion,
                   whenIndexedProgress, indexDb, indexedVersionInDb, indexState,
                   whenProcessingComplete, restarts>>

RECURSIVE ApplyIndexOperations(_, _)
ApplyIndexOperations(table, list) ==
    IF list = <<>> THEN table
    ELSE ApplyIndexOperations(
            [table EXCEPT ![<<Head(list).key, Head(list).id>>] =
                IF Head(list).type = "put" THEN Head(list).value ELSE Absent],
            Tail(list))

\* the engine has written the index batch: sendUpdates() runs and
\* whenIndexedProgress will stage the progress computed at commit time
IndexBatchWrittenBody ==
    /\ processing = "batch"
    /\ ~ReactionsQueued
    /\ indexDb' = ApplyIndexOperations(indexDb, indexBatch.ops)
    /\ indexedVersionInDb' = IF indexBatch.lastIndexed # 0
                             THEN indexBatch.lastIndexed ELSE indexedVersionInDb
    /\ whenIndexedProgress' = indexBatch.progress
    /\ indexBatch' = <<>>
    /\ processing' = "progress"
    /\ UNCHANGED <<bvars, evars, pendingAdded, queue, inFlight, operations,
                   lastIndexedVersion, queuedIndexedProgress, indexState,
                   whenProcessingComplete, restarts>>
\* (no class listens to the instances of the index)
IndexBatchWritten == IndexBatchWrittenBody /\ UNCHANGED xvars

\* whenIndexedProgress has resolved: the staged progress is put under
\* LAST_INDEXED_VERSION_KEY; the loop goes on while the queue holds requests,
\* and returns after the first of them when cancelIndexing is set
ProgressStored ==
    /\ processing = "progress"
    /\ LET staged == IF whenIndexedProgress # 0 THEN whenIndexedProgress
                     ELSE queuedIndexedProgress
       IN /\ indexedVersionInDb' = IF staged # 0 THEN staged ELSE indexedVersionInDb
          /\ queuedIndexedProgress' = 0
    /\ whenIndexedProgress' = 0
    /\ IF queue # <<>> /\ cancelIndexing
       THEN /\ inFlight' = {Head(queue)}
            /\ queue' = Tail(queue)
            /\ processing' = "returned"
            /\ UNCHANGED indexState
       ELSE IF queue # <<>>
       THEN /\ inFlight' = Requests(queue)
            /\ queue' = <<>>
            /\ processing' = "indexing"
            /\ UNCHANGED indexState
       ELSE /\ indexState' = "processed"
            /\ processing' = "returned"
            /\ UNCHANGED <<queue, inFlight>>
    /\ UNCHANGED <<bvars, evars, xvars, pendingAdded, operations, lastIndexedVersion,
                   indexBatch, indexDb, whenProcessingComplete, restarts>>

\* the then() of requestProcessing after processQueue has returned
ProcessingCompleteBody ==
    /\ processing = "returned"
    /\ indexState' = "ready"
    /\ whenProcessingComplete' = FALSE
    /\ processing' = "idle"
    /\ UNCHANGED <<bvars, evars, pendingAdded, queue, inFlight, operations,
                   lastIndexedVersion, queuedIndexedProgress, whenIndexedProgress,
                   indexBatch, indexDb, indexedVersionInDb, restarts>>
ProcessingComplete == ProcessingCompleteBody /\ UNCHANGED xvars

\* --- a downstream index: an Index whose Source is the index ------------------
\* Its table is left out: the state of its rounds, its queue of the index's
\* keys and the requests of its pass are kept. History: during, whether the
\* index had a round under way when the downstream requested processing, and
\* ended, whether a round of the index has ended since.
DownIdle ==
    down = [state |-> "ready", awaits |-> FALSE, queue |-> {}, inFlight |-> {},
            during |-> FALSE, ended |-> FALSE]

\* Promise.all(this.Sources.map(Source => Source.whenProcessingComplete)) is
\* not waited for
DownWaitsForNothing(promise) == FALSE
\* the promise of the Source as requestProcessing finds it: pending while the
\* Source has a round under way, absent otherwise
DownWaits(promise) == promise

\* the keys sendUpdates() sends a ReplacedEvent for
UpdatedKeys(list) == {list[i].key : i \in 1..Len(list)}

\* updated(event, by) of the downstream index for the instances of these
\* keys: each is queued; requestProcessing starts a round unless one is
\* under way
DownUpdated(keys) ==
    IF keys # {} /\ down.state = "ready"
    THEN [down EXCEPT !.queue = @ \cup keys,
                      !.state = "pending",
                      !.awaits = DownWaits(whenProcessingComplete),
                      !.during = whenProcessingComplete,
                      !.ended = FALSE]
    ELSE [down EXCEPT !.queue = @ \cup keys]

\* the engine has written the index batch: sendUpdates() notifies the
\* listeners of the index's instances
IndexBatchWrittenDown ==
    /\ IndexBatchWrittenBody
    /\ down' = DownUpdated(UpdatedKeys(indexBatch.ops))
    /\ UNCHANGED <<ovars, rvars, hvars, yvars>>

\* the round of the index ends: its whenProcessingComplete resolves
ProcessingCompleteDown ==
    /\ ProcessingCompleteBody
    /\ down' = [down EXCEPT !.awaits = FALSE, !.ended = TRUE]
    /\ UNCHANGED <<ovars, rvars, hvars, yvars>>

\* the promise chain of the downstream's requestProcessing starts its
\* processQueue: every queued request is spawned
DownStart ==
    /\ down.state = "pending"
    /\ ~down.awaits
    /\ down' = [down EXCEPT !.state = "processing", !.inFlight = @ \cup down.queue,
                            !.queue = {}]
    /\ UNCHANGED <<bvars, evars, ivars, ovars, rvars, hvars, yvars>>

\* one indexEntry of the downstream has read the instance of the index
DownIndexEntry ==
    \E key \in down.inFlight :
        /\ down.state = "processing"
        /\ ~ReactionsQueued
        /\ down' = [down EXCEPT !.inFlight = @ \ {key}]
        /\ UNCHANGED <<bvars, evars, ivars, ovars, rvars, hvars, yvars>>

\* the downstream has committed: the loop goes on while its queue holds
\* requests, else its state is 'processed'
DownCommitted ==
    /\ down.state = "processing"
    /\ down.inFlight = {}
    /\ ~ReactionsQueued
    /\ down' = IF down.queue # {}
               THEN [down EXCEPT !.inFlight = down.queue, !.queue = {}]
               ELSE [down EXCEPT !.state = "processed"]
    /\ UNCHANGED <<bvars, evars, ivars, ovars, rvars, hvars, yvars>>

\* the then() of the downstream's requestProcessing
DownComplete ==
    /\ down.state = "processed"
    /\ down' = [down EXCEPT !.state = "ready"]
    /\ UNCHANGED <<bvars, evars, ivars, ovars, rvars, hvars, yvars>>

\* --- failures of indexEntry -------------------------------------------------
\* an error of indexEntry reaches processQueue
IndexEntryUncaught == FALSE
\* the try/catch of indexEntry: the error is logged, the generator returns
IndexEntryCaught == TRUE

\* indexBy throws for the previous or the current value of one request:
\* nothing has been pushed for it and lastIndexedVersion is left
IndexEntryThrows ==
    \E request \in inFlight :
        /\ processing = "indexing"
        /\ ~AwaitsNothing(request)
        /\ ~AddedEventDue
        /\ failed' = failed \cup {request.id}
        /\ inFlight' = inFlight \ {request}
        /\ IF IndexEntryCaught
           THEN UNCHANGED <<indexState, processing>>
           ELSE /\ indexState' = "processed"
                /\ processing' = "returned"
        /\ UNCHANGED <<bvars, evars, ovars, rebuilt, cancelIndexing, clearedOver,
                       hvars, yvars, pendingAdded, queue, operations, lastIndexedVersion,
                       queuedIndexedProgress, whenIndexedProgress, indexBatch,
                       indexDb, indexedVersionInDb, whenProcessingComplete,
                       restarts, dvars>>

\* entity.valueOf() rejects on both attempts: data is undefined, there are no
\* entries, what is left of toRemove is deleted and the version is recorded
IndexEntryUnreadable ==
    \E request \in inFlight :
        /\ processing = "indexing"
        /\ ~request.deleted
        /\ ~AddedEventDue
        /\ failed' = failed \cup {request.id}
        /\ operations' = operations \o EntryOperations(request, "-")
        /\ lastIndexedVersion' = Max(request.version, lastIndexedVersion)
        /\ inFlight' = inFlight \ {request}
        /\ UNCHANGED <<bvars, evars, ovars, rebuilt, cancelIndexing, clearedOver,
                       hvars, yvars, pendingAdded, queue, queuedIndexedProgress,
                       whenIndexedProgress, indexBatch, indexDb,
                       indexedVersionInDb, indexState, whenProcessingComplete,
                       processing, restarts, dvars>>

\* --- a pass that is cancelled or fails -------------------------------------
\* the caller sets Index.cancelIndexing between two tasks of the event loop
CancelIndexing ==
    /\ ~cancelIndexing
    /\ processing # "stopped"
    /\ ~ReactionsQueued
    /\ cancelIndexing' = TRUE
    /\ UNCHANGED <<bvars, evars, ovars, rebuilt, clearedOver, failed, hvars, yvars, ivars, dvars>>

\* the catch of processQueue that leaves the state as it is
StateAfterCatchKept == "processing"
\* the catch of processQueue logs the error; this.state = 'processed' follows
StateAfterCatch == "processed"

\* the engine rejects the index batch: yield this.commitOperations() throws
\* inside processQueue, whose catch ends the pass
IndexBatchFailed ==
    /\ processing = "batch"
    /\ ~ReactionsQueued
    /\ indexBatch' = <<>>
    /\ indexState' = StateAfterCatch
    /\ processing' = "returned"
    /\ UNCHANGED <<bvars, evars, xvars, pendingAdded, queue, inFlight, operations,
                   lastIndexedVersion, queuedIndexedProgress, whenIndexedProgress,
                   indexDb, indexedVersionInDb, whenProcessingComplete, restarts>>

\* --- rebuild --------------------------------------------------------------
\* resetAll() -> rebuildIndex(), called between two tasks of the event loop
\* while no index batch is at the engine: rebuilt is set, the table is cleared
\* and 0 is put under LAST_INDEXED_VERSION_KEY
RebuildIndex ==
    /\ ~rebuilt
    /\ processing \notin {"stopped", "batch"}
    /\ ~ReactionsQueued
    /\ rebuilt' = TRUE
    /\ indexDb' = [row \in IndexRows |-> Absent]
    /\ indexedVersionInDb' = 0
    /\ clearedOver' = operations
    /\ UNCHANGED <<bvars, evars, ovars, cancelIndexing, failed, pendingAdded,
                   queue, inFlight, operations, lastIndexedVersion,
                   queuedIndexedProgress, whenIndexedProgress, indexBatch,
                   indexState, whenProcessingComplete, processing, restarts, hvars, yvars, dvars>>

\* --- stop and restart -------------------------------------------------------
\* the process stops: what the engine has written stays, the rest is gone
Crash ==
    /\ restarts < MaxRestarts
    /\ processing # "stopped"
    /\ restarts' = restarts + 1
    /\ processing' = "stopped"
    /\ batches' = <<>>
    /\ pendingWrites' = <<>>
    /\ handed' = <<>>
    /\ currentWriteBatch' = 0
    /\ writeCompletion' = 0
    /\ lastVersion' = 0
    /\ maxWritten' = maxCommitted
    /\ pendingAdded' = <<>>
    /\ queue' = <<>>
    /\ inFlight' = {}
    /\ operations' = <<>>
    /\ lastIndexedVersion' = 0
    /\ queuedIndexedProgress' = 0
    /\ whenIndexedProgress' = 0
    /\ indexBatch' = <<>>
    /\ indexState' = "stopped"
    /\ whenProcessingComplete' = FALSE
    /\ UNCHANGED <<nextVersion, db, dbLastVersion, onDbFailureCalls, opCount,
                   maxCommitted, evars, xvars, indexDb, indexedVersionInDb>>

\* the ids of seq, which holds no id twice, by ascending version
RECURSIVE SortedByVersion(_)
SortedByVersion(set) ==
    IF set = {} THEN <<>>
    ELSE LET first == CHOOSE x \in set :
                        \A y \in set : x.version < y.version
                                       \/ (x.version = y.version /\ x.id <= y.id)
         IN <<first>> \o SortedByVersion(set \ {first})

\* Source.getInstanceIdsAndVersionsSince(sinceVersion), with the class's
\* lastVersion as register() or this function read it from the table
GetInstanceIdsAndVersionsSince(sinceVersion, last) ==
    IF last <= sinceVersion THEN <<>>
    ELSE SortedByVersion({[id |-> id, version |-> db[id].version] :
                            id \in {i \in Ids : db[i] # NoValue
                                                /\ db[i].version > sinceVersion}})

RECURSIVE ResumeRequests(_)
ResumeRequests(idsAndVersions) ==
    IF idsAndVersions = <<>> THEN <<>>
    ELSE <<[id |-> Head(idsAndVersions).id, previousState |-> "-",
            version |-> Head(idsAndVersions).version, deleted |-> FALSE]>>
         \o ResumeRequests(Tail(idsAndVersions))

\* the class and its index are registered again: register() reads lastVersion,
\* resumeIndex() queues the entities written since LAST_INDEXED_VERSION
ResumeIndex ==
    /\ processing = "stopped"
    /\ lastVersion' = dbLastVersion
    /\ lastIndexedVersion' = indexedVersionInDb
    /\ LET toReindex == GetInstanceIdsAndVersionsSince(indexedVersionInDb, dbLastVersion)
           setOfIds == {toReindex[i].id : i \in 1..Len(toReindex)}
       IN /\ indexDb' = IF indexedVersionInDb = 0
                        THEN [row \in IndexRows |-> Absent]
                        ELSE [row \in IndexRows |->
                                IF row[2] \in setOfIds THEN Absent ELSE indexDb[row]]
          /\ queue' = ResumeRequests(toReindex)
    /\ indexState' = "pending"
    /\ whenProcessingComplete' = TRUE
    /\ processing' = "scheduled"
    /\ UNCHANGED <<nextVersion, batches, pendingWrites, currentWriteBatch,
                   writeCompletion, db, dbLastVersion, handed, onDbFailureCalls,
                   opCount, maxCommitted, maxWritten, evars, xvars, pendingAdded, inFlight,
                   operations, queuedIndexedProgress, whenIndexedProgress,
                   indexBatch, indexedVersionInDb, restarts>>

\* --- instances of the class ------------------------------------------------
Instances == 1..Len(instanceId)
\* the instance instancesById holds for id
Canonical(id) == instancesById[id]
\* the instances that can still be reached: by the caller or through the map
Live == held \cup {Canonical(id) : id \in {i \in Ids : Canonical(i) # 0}}

\* for(id) constructs an instance on every call
ForAlwaysNew(id) == Len(instanceId) + 1
\* the instance for(id) returns: the one in the map, or else a new one
ForResult(id) ==
    IF Canonical(id) # 0 THEN Canonical(id) ELSE Len(instanceId) + 1

\* instanceId and instancesById after for(id)
InstanceIdAfterFor(id) ==
    IF ForResult(id) > Len(instanceId) THEN Append(instanceId, id) ELSE instanceId

\* Class.for(id), the caller keeps the instance
ForBody(id) ==
    /\ ForResult(id) <= MaxInstances
    /\ instanceId' = InstanceIdAfterFor(id)
    /\ instancesById' = [instancesById EXCEPT ![id] = ForResult(id)]
    /\ held' = held \cup {ForResult(id)}
    /\ lastFor' = [lastFor EXCEPT ![id] = ForResult(id)]
    /\ UNCHANGED <<bvars, evars, ivars, registration, sourceTable, rvars, hvars, dvars>>
For == \E id \in Ids : ForBody(id) /\ UNCHANGED yvars

\* the caller drops its reference to an instance
Release ==
    \E h \in held :
        /\ held' = held \ {h}
        /\ UNCHANGED <<bvars, evars, ivars, instancesById, instanceId, lastFor,
                       registration, sourceTable, rvars, hvars, yvars, dvars>>

\* the map holds its values weakly: an instance nothing else refers to is
\* collected and its entry is gone
Collect ==
    \E id \in Ids :
        /\ Canonical(id) # 0
        /\ Canonical(id) \notin held
        /\ instancesById' = [instancesById EXCEPT ![id] = 0]
        /\ lastFor' = [lastFor EXCEPT ![id] = 0]
        /\ UNCHANGED <<bvars, evars, ivars, instanceId, held, registration, sourceTable, rvars, hvars, yvars, dvars>>

\* Class.remove(id): for(id), dbPut(id), instancesById.delete(id)
RemoveIdBody(id) ==
    /\ opCount < MaxOps
    /\ ForResult(id) <= MaxInstances
    /\ instanceId' = InstanceIdAfterFor(id)
    /\ DbPut(id, NoValue, 0)
    /\ nextVersion' = NextVersionAfterPut(0)
    /\ instancesById' = [instancesById EXCEPT ![id] = 0]
    /\ lastFor' = [lastFor EXCEPT ![id] = 0]
    /\ UNCHANGED <<evars, ivars, held, registration, sourceTable, rvars, hvars, dvars>>
RemoveId == \E id \in Ids : RemoveIdBody(id) /\ UNCHANGED yvars

\* this.constructor._instancesById.get(this.id) != this, negated
IsCanonicalAlways(h) == TRUE
IsCanonical(h) == Canonical(instanceId[h]) = h

\* the setter of an instance the caller holds: the write of an instance that
\* is not the one in the map is dropped with a warning
SetValueOn ==
    \E h \in held, json \in Jsons :
        /\ opCount < MaxOps
        /\ IF ~IsCanonical(h)
           THEN UNCHANGED <<bvars>>
           ELSE /\ DbPut(instanceId[h], [version |-> nextVersion + 1, json |-> json],
                         nextVersion + 1)
                /\ nextVersion' = nextVersion + 1
        /\ UNCHANGED <<evars, ivars, xvars>>

\* the setter, with the AddedEvent it sends for an instance that was new to
\* the cache (its readyState is an input here) once the dbPut has completed;
\* lastSet notes the instance and what the map held for its id
SetValueOnNoted ==
    \E h \in held, json \in Jsons, newToCache \in BOOLEAN :
        LET id == instanceId[h]
        IN /\ opCount < MaxOps
           /\ lastSet.count < MaxOps
           /\ IF ~IsCanonical(h)
              THEN UNCHANGED <<bvars, pendingAdded>>
              ELSE /\ DbPut(id, [version |-> nextVersion + 1, json |-> json],
                            nextVersion + 1)
                   /\ nextVersion' = nextVersion + 1
                   /\ pendingAdded' =
                         IF newToCache
                         THEN Append(pendingAdded,
                                     [id |-> id, version |-> nextVersion + 1,
                                      batch |-> TargetBatch])
                         ELSE pendingAdded
           /\ lastSet' = [instance |-> h, canonical |-> instancesById[id] = h,
                          count |-> lastSet.count + 1]
           /\ UNCHANGED <<evars, queue, inFlight, operations, lastIndexedVersion,
                          queuedIndexedProgress, whenIndexedProgress, indexBatch,
                          indexDb, indexedVersionInDb, indexState,
                          whenProcessingComplete, processing, restarts,
                          ovars, rvars, hvars, dvars, avars, pvars, changedAt, event>>

\* --- allow(...permissions): the proxy of secureAccess -----------------------
\* what secureAccess.checkPermissions(permissions, target, name, args) answers
\* for a call: true, false, a diagnostic string, or a truthy number
PermissionResults == {"true", "false", "diagnostic", "1"}
\* permitted !== true
Permitted(permitted) == permitted = "true"

\* the names methodOverrides defines, and the names the object literal
\* inherits from Object.prototype
MethodOverrides == {"for", "stopNotifies", "isChecked"}
ObjectPrototype == {"valueOf", "toString", "hasOwnProperty", "constructor"}
\* methodOverrides[name] is truthy: the get trap returns it bound to the
\* target, and no permission is checked
Overridden(name) == name \in MethodOverrides \cup ObjectPrototype

\* the outcome of a call of name through the proxy: the function the get
\* trap returns for a name that is not overridden checks the permission and
\* throws AccessError or applies the method
CallThrough(name, permitted, changed) ==
    [name |-> name, permitted |-> permitted,
     checked |-> ~Overridden(name),
     invoked |-> IF Overridden(name) THEN name \in MethodOverrides
                 ELSE Permitted(permitted),
     error |-> ~Overridden(name) /\ ~Permitted(permitted),
     changed |-> changed]

\* Secured.for(id): the override calls Class.for(id) and wraps the instance
SecuredFor ==
    \E id \in Ids, permitted \in PermissionResults :
        /\ ForBody(id)
        /\ access' = CallThrough("for", permitted, instancesById' # instancesById)
        /\ UNCHANGED <<pvars, cvars>>

\* Secured.remove(id): a function of the class, reached through the check
SecuredRemove ==
    \E id \in Ids, permitted \in PermissionResults :
        /\ IF Permitted(permitted)
           THEN RemoveIdBody(id)
           ELSE UNCHANGED <<bvars, evars, ivars, ovars, rvars, hvars, dvars>>
        /\ access' = CallThrough("remove", permitted,
                                 <<bvars, ovars>>' # <<bvars, ovars>>)
        /\ UNCHANGED <<pvars, cvars>>

\* valueOf() of an instance Secured.for(id) returned: methodOverrides.valueOf
\* is Object.prototype.valueOf, which bound to the target returns the target
SecuredValueOf ==
    \E h \in held, permitted \in PermissionResults :
        /\ access' = CallThrough("valueOf", permitted, FALSE)
        /\ UNCHANGED <<bvars, evars, ivars, ovars, rvars, hvars, dvars, pvars, cvars>>

\* --- register --------------------------------------------------------------
\* the record under DB_VERSION_KEY; dbVersion 0 stands for no record
NoState == [dbVersion |-> 0, startVersion |-> 0]
\* a class that was registered over an empty table and has no Source
Registered ==
    [kind |-> "persisted", dbVersion |-> 1, state |-> NoState, startVersion |-> 1,
     phase |-> "registered", ready |-> TRUE, matched |-> FALSE, resetAllCalls |-> 0,
     alreadyRegistered |-> 0,
     clears |-> 0, stateWrites |-> 0, since |-> 0]
NoSource == [rows |-> [id \in Ids |-> 0], lastVersion |-> 0]

\* state && (state.dbVersion || state.transformHash) == this.dbVersion
StateMatches(state, dbVersion) == state # NoState /\ state.dbVersion = dbVersion
\* register takes a new startVersion although the record matches
FreshStartVersion(state) == state.startVersion + 1
\* this.startVersion = this.version = state.startVersion
AdoptedStartVersion(state) == state.startVersion

\* register(sourceCode): the record matches, or else resetAll(clearDb) is
\* called; Persisted.resetAll does nothing, so updateDBVersion and onReady
\* follow at once
Register ==
    /\ registration.phase = "unregistered"
    /\ lastVersion' = dbLastVersion
    /\ IF StateMatches(registration.state, registration.dbVersion)
       THEN registration' = [registration EXCEPT
                               !.since = dbLastVersion,
                               !.startVersion = AdoptedStartVersion(registration.state),
                               !.matched = TRUE,
                               !.phase = "registered",
                               !.ready = TRUE]
       ELSE IF registration.kind = "persisted"
       THEN registration' = [registration EXCEPT
                               !.since = dbLastVersion,
                               !.startVersion = registration.state.startVersion + 1,
                               !.resetAllCalls = @ + 1,
                               !.state = [dbVersion |-> registration.dbVersion,
                                          startVersion |-> registration.state.startVersion + 1],
                               !.stateWrites = @ + 1,
                               !.phase = "registered",
                               !.ready = TRUE]
       ELSE registration' = [registration EXCEPT
                               !.since = dbLastVersion,
                               !.startVersion = registration.state.startVersion + 1,
                               !.resetAllCalls = @ + 1,
                               !.phase = IF registration.state # NoState
                                         THEN "clearing" ELSE "seeding"]
    /\ UNCHANGED <<nextVersion, batches, pendingWrites, currentWriteBatch,
                   writeCompletion, db, dbLastVersion, handed, onDbFailureCalls,
                   opCount, maxCommitted, maxWritten, evars, ivars, instancesById,
                   instanceId, held, lastFor, sourceTable, rvars, hvars, yvars, dvars>>

\* register(sourceCode) on a class whose name is in global: the three
\* assignments to the batcher's fields come first, then the test of
\* global[this.name] throws '... already registered'
RegisterAgain ==
    /\ registration.phase # "unregistered"
    /\ registration.alreadyRegistered < MaxRestarts
    /\ pendingWrites' = <<>>
    /\ currentWriteBatch' = 0
    /\ writeCompletion' = 0
    /\ registration' = [registration EXCEPT !.alreadyRegistered = @ + 1]
    /\ UNCHANGED <<lastVersion, nextVersion, batches, db, dbLastVersion, handed,
                   onDbFailureCalls, opCount, maxCommitted, maxWritten, evars,
                   ivars, instancesById, instanceId, held, lastFor, sourceTable,
                   rvars, hvars, yvars, dvars>>

\* Cached.resetAll(clearDb) with clearDb set: db.clear()
ResetAllClear ==
    /\ registration.phase = "clearing"
    /\ db' = [k \in Ids |-> NoValue]
    /\ dbLastVersion' = 0
    /\ registration' = [registration EXCEPT !.state = NoState, !.clears = @ + 1,
                                            !.phase = "seeding"]
    /\ UNCHANGED <<lastVersion, nextVersion, batches, pendingWrites,
                   currentWriteBatch, writeCompletion, handed, onDbFailureCalls,
                   opCount, maxCommitted, maxWritten, evars, ivars, instancesById,
                   instanceId, held, lastFor, sourceTable, rvars, hvars, yvars, dvars>>

\* Cached.resetAll: every id of fetchAllIds() gets a row that holds a new
\* version only; fetchAllIds yields no id or one
ResetAllSeed ==
    /\ registration.phase = "seeding"
    /\ \/ UNCHANGED <<bvars>>
       \/ \E id \in Ids :
            /\ DbPut(id, [version |-> nextVersion + 1, json |-> "-"], nextVersion + 1)
            /\ nextVersion' = nextVersion + 1
    /\ registration' = [registration EXCEPT !.phase = "written"]
    /\ UNCHANGED <<evars, ivars, instancesById, instanceId, held, lastFor,
                   sourceTable, rvars, hvars, yvars, dvars>>

\* resetAll has awaited writeCompletion and returned: updateDBVersion(), onReady
ResetAllDone ==
    /\ registration.phase = "written"
    /\ writeCompletion = 0 \/ Resolved(writeCompletion)
    /\ registration' = [registration EXCEPT
                           !.state = [dbVersion |-> registration.dbVersion,
                                      startVersion |-> registration.startVersion],
                           !.stateWrites = @ + 1,
                           !.phase = "registered",
                           !.ready = TRUE]
    /\ UNCHANGED <<bvars, evars, ivars, instancesById, instanceId, held, lastFor,
                   sourceTable, rvars, hvars, yvars, dvars>>

\* Source.getInstanceIdsAndVersionsSince(sinceVersion) over the Source's table
SourceIdsSince(sinceVersion) ==
    IF sourceTable.lastVersion <= sinceVersion THEN {}
    ELSE {id \in Ids : sourceTable.rows[id] > sinceVersion}

\* Cached.register once registered: every entity whose Source row is newer
\* than lastVersion is sent a ReplacedEvent, and its resetCache puts a row
\* that holds the new version only
CatchUp ==
    /\ registration.kind = "cached"
    /\ registration.phase = "registered"
    /\ \/ /\ SourceIdsSince(lastVersion) = {}
          /\ UNCHANGED <<bvars>>
       \/ \E id \in SourceIdsSince(lastVersion) :
            /\ SourceIdsSince(lastVersion) = {id}
            /\ DbPut(id, [version |-> nextVersion + 1, json |-> "-"], nextVersion + 1)
            /\ nextVersion' = nextVersion + 1
    /\ registration' = [registration EXCEPT !.phase = "caught up"]
    /\ UNCHANGED <<evars, ivars, instancesById, instanceId, held, lastFor,
                   sourceTable, rvars, hvars, yvars, dvars>>

NoInstances ==
    /\ instancesById = [id \in Ids |-> 0]
    /\ instanceId = <<>>
    /\ held = {}
    /\ lastFor = [id \in Ids |-> 0]
\* an index that has not been rebuilt; nothing in the sources assigns
\* cancelIndexing
RebuildIdle ==
    /\ rebuilt = FALSE
    /\ cancelIndexing = FALSE
    /\ clearedOver = <<>>
    /\ failed = {}
NoWrite == [id |-> 0, json |-> "-", version |-> 0, batch |-> 0, accepted |-> FALSE]
\* no call has been made through a proxy
NoCall ==
    [name |-> "-", permitted |-> "true", checked |-> FALSE, invoked |-> FALSE,
     error |-> FALSE, changed |-> FALSE]
MoreIdle ==
    /\ access = NoCall
    /\ entryCall = NoEntryCall
    /\ pass = NoPass
    /\ changedAt = [id \in Ids |-> 0]
    /\ event = NoEvent
    /\ lastSet = [instance |-> 0, canonical |-> TRUE, count |-> 0]
ExtraIdle ==
    /\ NoInstances
    /\ registration = Registered
    /\ sourceTable = NoSource
    /\ RebuildIdle
    /\ written = NoWrite
    /\ DownIdle
    /\ MoreIdle

vars == <<bvars, evars, ivars, xvars>>

\* --- the write batcher alone -------------------------------------------
BatcherInit == BatchInit /\ EntityIdle /\ IndexIdle /\ ExtraIdle
BatcherNext ==
    \/ PutRow
    \/ PutRemove
    \/ CommitTimer
    \/ StartWrite
    \/ BatchWritten
    \/ BatchFailed
BatcherSpec == BatcherInit /\ [][BatcherNext]_vars
\* timers fire, promise reactions run and the engine answers every
\* db.batch(), with success or with an error
BatcherFairness ==
    /\ WF_vars(CommitTimer)
    /\ WF_vars(StartWrite)
    /\ WF_vars(BatchWritten \/ BatchFailed)
FairBatcherSpec == BatcherSpec /\ BatcherFairness

\* --- the write batcher of a class that is registered a second time ---------
AgainNext ==
    \/ PutRow
    \/ PutRemove
    \/ CommitTimer
    \/ StartWrite
    \/ BatchWritten
    \/ BatchFailed
    \/ RegisterAgain
AgainSpec == BatcherInit /\ [][AgainNext]_vars

\* --- entities of one class over its table and write batcher -------------
\* The table may hold a row of id 1 written by an earlier run; the class is a
\* Persisted (versionProperty 'version') or a Cached ('cachedVersion').
EntityInit ==
    /\ versionProperty \in {"version", "cachedVersion"}
    /\ entities = [id \in LiveIds |-> NewEntity]
    /\ \E stored \in {0, 1} :
          /\ db = [k \in Ids |-> IF k = 1 /\ stored = 1
                                 THEN [version |-> 1, json |-> "a"] ELSE NoValue]
          /\ dbLastVersion = stored
          /\ lastVersion = stored
          /\ nextVersion = stored
          /\ maxCommitted = stored
          /\ maxWritten = stored
    /\ batches = <<>>
    /\ pendingWrites = <<>>
    /\ currentWriteBatch = 0
    /\ writeCompletion = 0
    /\ handed = <<>>
    /\ onDbFailureCalls = 0
    /\ opCount = 0
    /\ IndexIdle
    /\ ExtraIdle
EntityNext ==
    \/ LoadLatestLocalData
    \/ Updated
    \/ SetValue
    \/ ClearCache
    \/ CommitTimer
    \/ StartWrite
    \/ BatchWritten
    \/ BatchFailed
EntitySpec == EntityInit /\ [][EntityNext]_vars

\* --- entities of a class that tracks previous values -------------------------
TrackedNext ==
    \/ LoadLatestLocalData
    \/ ReadValue
    \/ UpdatedTracked
    \/ RemoveTracked
    \/ SetValue
    \/ ClearCache
    \/ CommitTimer
    \/ StartWrite
    \/ BatchWritten
    \/ BatchFailed
TrackedSpec == EntityInit /\ [][TrackedNext]_vars

\* --- an index over the class, no restart -----------------------------------
Init == BatchInit /\ EntityIdle /\ IndexIdle /\ ExtraIdle
Next ==
    \/ SetNew
    \/ AddedEventSent
    \/ Replace
    \/ Remove
    \/ CommitTimer
    \/ StartWrite
    \/ BatchWritten
    \/ StartProcessing
    \/ IndexEntry
    \/ CommitOperations
    \/ IndexBatchWritten
    \/ ProgressStored
    \/ ProcessingComplete
Spec == Init /\ [][Next]_vars

\* --- set value, then a restart and a load ------------------------------------
\* set value on the instance: the row and the batch of its dbPut are noted
RoundTripSet ==
    \E id \in LiveIds, json \in Jsons :
        /\ restarts = 0
        /\ SetValueBody(id, json)
        /\ written' = [id |-> id, json |-> json,
                       version |-> GetVersionProperty(entities[id]),
                       batch |-> TargetBatch, accepted |-> FALSE]
        /\ UNCHANGED <<ovars, rvars, dvars, yvars>>
\* the process is stopped once the writeCompletion of the last set value has
\* resolved and started again over the same table: every instance is new,
\* the batcher is empty, register() reads lastVersion
EntityRestart ==
    /\ restarts < MaxRestarts
    /\ written.batch \in 1..Len(batches)
    /\ Resolved(written.batch)
    /\ restarts' = restarts + 1
    /\ written' = [written EXCEPT !.accepted = batches[written.batch].state = "done"]
    /\ entities' = [id \in LiveIds |-> NewEntity]
    /\ batches' = <<>>
    /\ pendingWrites' = <<>>
    /\ handed' = <<>>
    /\ currentWriteBatch' = 0
    /\ writeCompletion' = 0
    /\ lastVersion' = dbLastVersion
    /\ maxWritten' = maxCommitted
    /\ UNCHANGED <<nextVersion, db, dbLastVersion, onDbFailureCalls, opCount,
                   maxCommitted, versionProperty, ovars, rvars, pendingAdded,
                   queue, inFlight, operations, lastIndexedVersion,
                   queuedIndexedProgress, whenIndexedProgress, indexBatch,
                   indexDb, indexedVersionInDb, indexState,
                   whenProcessingComplete, processing, dvars, yvars>>
RoundTripNext ==
    \/ LoadLatestLocalData
    \/ RoundTripSet
    \/ ClearCache
    \/ CommitTimer
    \/ StartWrite
    \/ BatchWritten
    \/ BatchFailed
    \/ EntityRestart
RoundTripSpec == EntityInit /\ [][RoundTripNext]_vars

\* --- an index some of whose indexEntry calls fail ----------------------------
FewWrites == opCount < MaxOps
EntryFaultNext ==
    \/ FewWrites /\ SetNew
    \/ AddedEventSent
    \/ FewWrites /\ Replace
    \/ FewWrites /\ Remove
    \/ CommitTimer
    \/ StartWrite
    \/ BatchWritten
    \/ StartProcessing
    \/ IndexEntry
    \/ IndexEntryThrows
    \/ IndexEntryUnreadable
    \/ CommitOperations
    \/ IndexBatchWritten
    \/ ProgressStored
    \/ ProcessingComplete
EntryFaultSpec == Init /\ [][EntryFaultNext]_vars

\* --- an index whose passes are cancelled or fail -----------------------------
PassFaultNext ==
    \/ FewWrites /\ SetNew
    \/ AddedEventSent
    \/ FewWrites /\ Replace
    \/ FewWrites /\ Remove
    \/ CommitTimer
    \/ StartWrite
    \/ BatchWritten
    \/ StartProcessing
    \/ IndexEntry
    \/ CommitOperations
    \/ IndexBatchWritten
    \/ IndexBatchFailed
    \/ ProgressStored
    \/ ProcessingComplete
    \/ CancelIndexing
PassFaultSpec == Init /\ [][PassFaultNext]_vars

\* --- the class, its index and an index over that index ----------------------
DownNext ==
    \/ FewWrites /\ SetNew
    \/ AddedEventSent
    \/ FewWrites /\ Replace
    \/ FewWrites /\ Remove
    \/ CommitTimer
    \/ StartWrite
    \/ BatchWritten
    \/ StartProcessing
    \/ IndexEntry
    \/ CommitOperations
    \/ IndexBatchWrittenDown
    \/ ProgressStored
    \/ ProcessingCompleteDown
    \/ DownStart
    \/ DownIndexEntry
    \/ DownCommitted
    \/ DownComplete
DownSpec == Init /\ [][DownNext]_vars

\* --- an index that is rebuilt while the class is written to -----------------
RebuildNext ==
    \/ Next
    \/ RebuildIndex
RebuildSpec == Init /\ [][RebuildNext]_vars

\* --- a burst of puts on one class before any commit timer fires ----------
\* set value on one new entity after another: each put has a key of its own
\* and a fresh version
BurstPut ==
    /\ opCount < MaxBurst
    /\ DbPut(opCount + 1, [version |-> nextVersion + 1, json |-> "a"],
             nextVersion + 1)
    /\ nextVersion' = NextVersionAfterPut(nextVersion + 1)
    /\ UNCHANGED <<evars, xvars, ivars>>
\* the 20 ms timer of the batch left open when the burst is over
BurstTimer == opCount = MaxBurst /\ CommitTimer
BurstNext ==
    \/ BurstPut
    \/ BurstTimer
    \/ StartWrite
    \/ BatchWritten
BurstSpec == Init /\ [][BurstNext]_vars

\* --- an index over the class, with one stop and restart ---------------------
\* the class is written to until the process stops
UntilStopped == restarts = 0 /\ opCount < MaxOps
CrashNext ==
    \/ UntilStopped /\ SetNew
    \/ AddedEventSent
    \/ UntilStopped /\ Replace
    \/ UntilStopped /\ Remove
    \/ CommitTimer
    \/ StartWrite
    \/ BatchWritten
    \/ StartProcessing
    \/ IndexEntry
    \/ CommitOperations
    \/ IndexBatchWritten
    \/ ProgressStored
    \/ ProcessingComplete
    \/ Crash
    \/ ResumeIndex
CrashSpec == Init /\ [][CrashNext]_vars

\* --- the same, with the history of what the engine committed ----------------
ResumeNext ==
    \/ UntilStopped /\ SetNew
    \/ AddedEventSent
    \/ UntilStopped /\ Replace
    \/ UntilStopped /\ Remove
    \/ CommitTimer
    \/ StartWrite
    \/ BatchWrittenNoted
    \/ StartProcessing
    \/ IndexEntry
    \/ CommitOperations
    \/ IndexBatchWritten
    \/ ProgressStored
    \/ ProcessingComplete
    \/ Crash
    \/ ResumeIndex
ResumeSpec == Init /\ [][ResumeNext]_vars

\* --- the instances of a class, its table and write batcher ------------------
\* (what the engine does with the batches has no part in which instance the
\* map holds: the batches are followed until they are handed to the engine)
IdentityNext ==
    \/ For
    \/ Release
    \/ Collect
    \/ RemoveId
    \/ SetValueOn
    \/ CommitTimer
IdentitySpec == Init /\ [][IdentityNext]_vars

\* --- instances the caller keeps, with the writes carried out and the
\* AddedEvents sent -----------------------------------------------------------
DroppedNext ==
    \/ For
    \/ RemoveId
    \/ SetValueOnNoted
    \/ AddedEventSent
    \/ CommitTimer
    \/ StartWrite
    \/ BatchWritten
DroppedSpec == Init /\ [][DroppedNext]_vars

\* --- indexEntry alone, over every pair of entry lists ------------------------
EntryNext == IndexOneEntry
EntrySpec == Init /\ [][EntryNext]_vars

\* --- one pass of processQueue over a long queue -----------------------------
PassNext ==
    \/ PassStart
    \/ PassEntryDone
    \/ PassCommitted
    \/ PassDrained
    \/ PassBatchWritten
    \/ PassStaged
    \/ PassResumed
    \/ PassProgressStored
PassSpec == Init /\ [][PassNext]_vars

\* --- the class is used through the proxy of allow() -------------------------
SecuredNext ==
    \/ SecuredFor
    \/ SecuredRemove
    \/ SecuredValueOf
    \/ Release
    \/ Collect
    \/ CommitTimer
SecuredSpec == Init /\ [][SecuredNext]_vars

\* --- a class is registered over the table an earlier run left ----------------
\* The table holds a state record and a row, or nothing; the class's dbVersion
\* is the stored one or another; its Source may hold a row of a later version.
RegisterInit ==
    /\ \E kind \in {"persisted", "cached"}, dbVersion \in {1, 2}, stored \in {0, 1} :
          /\ registration = [kind |-> kind, dbVersion |-> dbVersion,
                             state |-> IF stored = 1
                                       THEN [dbVersion |-> 1, startVersion |-> 1]
                                       ELSE NoState,
                             startVersion |-> 0, phase |-> "unregistered",
                             ready |-> FALSE, matched |-> FALSE, resetAllCalls |-> 0,
                             alreadyRegistered |-> 0,
                             clears |-> 0, stateWrites |-> 0, since |-> 0]
          /\ \E rows \in {0, stored} :
                /\ db = [k \in Ids |-> IF k = 1 /\ rows = 1
                                       THEN [version |-> 1, json |-> "a"] ELSE NoValue]
                /\ dbLastVersion = rows
                /\ nextVersion = 2
                /\ maxCommitted = rows
                /\ maxWritten = rows
          /\ \E newer \in {0, 2} :
                sourceTable = [rows |-> [id \in Ids |-> IF id = 1 /\ kind = "cached"
                                                         THEN newer ELSE 0],
                               lastVersion |-> IF kind = "cached" THEN newer ELSE 0]
    /\ lastVersion = 0
    /\ batches = <<>>
    /\ pendingWrites = <<>>
    /\ currentWriteBatch = 0
    /\ writeCompletion = 0
    /\ handed = <<>>
    /\ onDbFailureCalls = 0
    /\ opCount = 0
    /\ EntityIdle
    /\ IndexIdle
    /\ NoInstances
    /\ RebuildIdle
    /\ written = NoWrite
    /\ DownIdle
    /\ MoreIdle
RegisterNext ==
    \/ Register
    \/ ResetAllClear
    \/ ResetAllSeed
    \/ ResetAllDone
    \/ CatchUp
    \/ CommitTimer
    \/ BatchWritten
RegisterSpec == RegisterInit /\ [][RegisterNext]_vars

\* ------------------------------------------------------------------------
\* Properties of the write batcher
\* ------------------------------------------------------------------------
BatchIds == 1..Len(batches)
Handed(b) == batches[b].state \in {"writing", "done", "failed"}
MarkerPuts(b) ==
    {i \in 1..Len(batches[b].operations) :
        batches[b].operations[i].key = LAST_VERSION_IN_DB_KEY}
\* the finished batch after which no other batch has finished
LatestFinished(b) ==
    /\ Resolved(b)
    /\ \A c \in BatchIds : c > b => ~Resolved(c)
\* the newest batch that recorded an operation on key, 0 if there is none
LastWriteBatch(key) ==
    LET holders == {b \in BatchIds : batches[b].ops[key].type # "none"}
    IN IF holders = {} THEN 0
       ELSE CHOOSE b \in holders : \A c \in holders : c <= b

\* C4: within one class batches reach the engine in the order they were
\* opened and never overlap: a batch is being written only when every batch
\* opened before it has finished, db.batch() is called in batch order, and a
\* dbPut always records into the newest batch.
C4_BatchesSerialize ==
    /\ \A b \in BatchIds :
          batches[b].state = "writing" =>
             \A a \in 1..(b - 1) : batches[a].state \in {"done", "failed"}
    /\ \A i \in 1..Len(handed) : \A j \in 1..Len(handed) :
          i < j => handed[i] < handed[j]
    /\ currentWriteBatch # 0 => currentWriteBatch = Len(batches)
\* C4 witness: a batch whose commit was requested waits while the batch
\* before it is still being written by the engine.
C4_Witness ==
    \E b \in BatchIds :
        /\ b > 1
        /\ batches[b].state = "committing"
        /\ batches[b - 1].state = "writing"

\* C5: every batch passed to the engine holds, next to its entity operations,
\* exactly one put of LAST_VERSION_IN_DB_KEY; its value is the class's
\* lastVersion (as long as no later dbPut has raised it) and is at least the
\* version of every operation of the batch.
C5_MarkerInBatch ==
    \A b \in BatchIds :
        Handed(b) =>
           /\ Cardinality(MarkerPuts(b)) = 1
           /\ \A i \in MarkerPuts(b) :
                 /\ batches[b].operations[i].type = "put"
                 /\ batches[b].operations[i].value.version <= lastVersion
                 /\ b = Len(batches) =>
                       batches[b].operations[i].value.version = lastVersion
                 /\ \A k \in Ids :
                       batches[b].ops[k].type # "none" =>
                          batches[b].ops[k].version
                             <= batches[b].operations[i].value.version
           /\ Len(batches[b].operations) = Len(batches[b].order) + 1
\* C5 witness: a batch with two entity operations of different versions has
\* been handed to the engine.
C5_Witness ==
    \E b \in BatchIds :
        /\ Handed(b)
        /\ Len(batches[b].order) = 2
        /\ batches[b].ops[1].version # batches[b].ops[2].version

\* C6 as stated: after every committed batch the stored marker equals the highest version of any entity
\* row ever committed, and lastVersion equals the highest version of any row
\* ever written.
C6_MarkerIsMaxRowVersion ==
    (batches # <<>> /\ \A b \in BatchIds : batches[b].state = "done") =>
       /\ dbLastVersion = maxCommitted
       /\ lastVersion = maxWritten
\* C6 amended: the stored marker is at least the highest version of any
\* committed entity row and never above lastVersion; lastVersion is at least
\* the highest row version written and at least the version of every recorded
\* operation, deletes (versioned by getNextVersion) included.
C6_MarkerCoversRows ==
    /\ dbLastVersion >= maxCommitted
    /\ dbLastVersion <= lastVersion
    /\ lastVersion >= maxWritten
    /\ \A b \in BatchIds : \A k \in Ids : batches[b].ops[k].version <= lastVersion
\* C6 witness: a committed batch whose only operation is a delete left a
\* marker above every committed row version.
C6_Witness ==
    /\ dbLastVersion > maxCommitted
    /\ \E b \in BatchIds :
          /\ batches[b].state = "done"
          /\ \E k \in Ids : batches[b].ops[k].type = "remove"

\* C7 as stated: whenever the writeCompletion of a batch has resolved (and
\* until the next batch finishes), every row put by the batch and a marker
\* covering its version are in the engine.
C7_ResolvedMeansDurable ==
    \A b \in BatchIds :
        LatestFinished(b) =>
           \A k \in Ids :
              batches[b].ops[k].type = "put" =>
                 /\ db[k] = batches[b].ops[k].value
                 /\ dbLastVersion >= batches[b].ops[k].version
\* C7 amended: whenever the writeCompletion of a batch has resolved and the
\* engine accepted the batch, every row the batch holds (the last put per key)
\* and a marker covering its version are in the engine, and every key the
\* batch removed is absent; a rejected batch resolves too, with nothing durable.
C7_AcceptedMeansDurable ==
    \A b \in BatchIds :
        (LatestFinished(b) /\ batches[b].state = "done") =>
           \A k \in Ids :
              /\ batches[b].ops[k].type = "put" =>
                    /\ db[k] = batches[b].ops[k].value
                    /\ dbLastVersion >= batches[b].ops[k].version
              /\ batches[b].ops[k].type = "remove" => db[k] = NoValue
\* C7 witness: a committed batch holding two rows has resolved.
C7_Witness ==
    \E b \in BatchIds :
        /\ LatestFinished(b)
        /\ batches[b].state = "done"
        /\ \A k \in Ids : batches[b].ops[k].type = "put"

\* C8: when the engine rejects a batch its writeCompletion resolves and does
\* not reject, the batch is out of pendingWrites and is no longer the open
\* batch, and onDbFailure has been called.
C8_FailureSignalled ==
    \A b \in BatchIds :
        batches[b].state = "failed" =>
           /\ Resolved(b)
           /\ ~Rejected(b)
           /\ IndexOf(pendingWrites, b) = 0
           /\ currentWriteBatch # b
           /\ onDbFailureCalls > 0

\* C9: after a dbPut of a key with no later write of it, dbGet returns the
\* value of that dbPut (absent after a remove) while its batch is open,
\* waiting behind an earlier batch, being written, or durable.
C9_ReadYourWrites ==
    \A k \in Ids :
        (LastWriteBatch(k) # 0 /\ batches[LastWriteBatch(k)].state # "failed") =>
           DbGet(k) = batches[LastWriteBatch(k)].ops[k].value
\* C9 witness: the newest write of a key waits behind an earlier pending batch
\* that holds another value of the same key.
C9_Witness ==
    \E k \in Ids :
        /\ Len(pendingWrites) = 2
        /\ batches[pendingWrites[2]].state = "committing"
        /\ batches[pendingWrites[1]].ops[k].type = "put"
        /\ batches[pendingWrites[2]].ops[k].type # "none"
        /\ batches[pendingWrites[2]].ops[k].value
              # batches[pendingWrites[1]].ops[k].value

\* C23: every operation recorded by dbPut is eventually handed to the engine
\* in a batch and its writeCompletion eventually resolves, provided the engine
\* answers every batch write: a batch is flushed by its timer or by the size
\* threshold also when the batch before it is in flight or has failed; a
\* batch at the engine holds the operation recorded last for each of its keys
C23_EveryBatchCompletes ==
    /\ \A n \in 1..MaxOps :
          (Len(batches) >= n) ~> (Len(batches) >= n /\ Handed(n) /\ Resolved(n))
    /\ [](\A b \in BatchIds : \A k \in Ids :
            (Handed(b) /\ batches[b].ops[k].type # "none") =>
               /\ k \in OperationKeys(batches[b].operations)
               /\ LastOn(batches[b].operations, k).value = batches[b].ops[k].value)
\* C23 witness: a batch opened while the batch before it was unfinished has
\* been written after that batch failed
C23_Witness ==
    \E b \in BatchIds :
        /\ b > 1
        /\ batches[b].lastWriteCompletion = b - 1
        /\ batches[b - 1].state = "failed"
        /\ batches[b].state = "done"

\* ------------------------------------------------------------------------
\* Properties of the entity store
\* ------------------------------------------------------------------------

\* C10: the version of an entity never decreases, whatever sequence of
\* updated, set value, loadLatestLocalData and clearCache is applied to it.
C10_VersionNeverDecreases ==
    [][\A id \in LiveIds : entities'[id].version >= entities[id].version]_vars

\* ------------------------------------------------------------------------
\* Properties of the index
\* ------------------------------------------------------------------------
\* the index table holds exactly indexBy of the current value of every entity
IndexFresh ==
    \A row \in IndexRows : indexDb[row] = IndexBy(CurrentJson(row[2]))[row[1]]
\* nothing queued, no round of processing under way
QueueDrained ==
    /\ queue = <<>>
    /\ inFlight = {}
    /\ ~whenProcessingComplete
    /\ processing = "idle"

\* nothing is left to do: every write of the class is in its table, every
\* AddedEvent is sent, and the index has no request and no operation left
Quiescent ==
    /\ QueueDrained
    /\ pendingAdded = <<>>
    /\ pendingWrites = <<>>
    /\ operations = <<>>
    /\ indexBatch = <<>>

\* C1: after any sequence of set, update and remove on the source class, once
\* its writes are done and the index queue is drained with whenProcessingComplete
\* resolved, the index rows are exactly indexBy of the current value of every
\* source entity: no stale row remains and no row is missing
C1_IndexFresh == Quiescent => IndexFresh

\* C22: every request placed in the index queue is eventually indexed: at
\* no time does the queue hold a request while no processing round is
\* scheduled or under way, whatever the interleaving of Index.updated with
\* the end of a round
C22_QueuedMeansScheduled ==
    queue # <<>> => (whenProcessingComplete /\ processing # "idle")

\* the index table once the operations computed so far are written
RowsOnceWritten ==
    ApplyIndexOperations(
        IF indexBatch = <<>> THEN indexDb
        ELSE ApplyIndexOperations(indexDb, indexBatch.ops),
        operations)
\* the rows of id reflect indexBy of the value json
RowsReflect(id, json) ==
    \A key \in {"k1", "k2", "k3"} : RowsOnceWritten[<<key, id>>] = IndexBy(json)[key]
\* C26: the queue holds at most one request per source id; an event for an
\* id that is queued moves its request to the tail and keeps the
\* previousState captured when the request was created, so that the
\* previousState of a queued request is the value the index rows of its id
\* reflect (no indexEntry of the id being under way)
C26_PreviousStateIsIndexed ==
    /\ [][\A id \in Ids :
            (QueueHas(queue, id) /\ QueueHas(queue', id)) =>
               /\ QueueGet(queue', id).previousState = QueueGet(queue, id).previousState
               /\ (QueueGet(queue', id) # QueueGet(queue, id)
                     => queue'[Len(queue')].id = id)]_vars
    /\ [](\A i \in 1..Len(queue) :
            /\ \A j \in 1..Len(queue) : i # j => queue[i].id # queue[j].id
            /\ (\A request \in inFlight : request.id # queue[i].id)
                  => RowsReflect(queue[i].id, queue[i].previousState))

\* C27: the requests of the queue are ordered by version: in insertion order
\* their versions never decrease, and the version of a queued request is
\* never replaced by a lower one, in whatever order the events arrive
C27_QueueOrderedByVersion ==
    /\ [](\A i \in 1..Len(queue) : \A j \in 1..Len(queue) :
            i < j => queue[i].version <= queue[j].version)
    /\ [][\A id \in Ids :
            (QueueHas(queue, id) /\ QueueHas(queue', id)) =>
               QueueGet(queue', id).version >= QueueGet(queue, id).version]_vars

\* C2: the value stored under LAST_INDEXED_VERSION, and the value staged as
\* queuedIndexedProgress, is strictly less than the version of every request
\* still in the queue
C2_ProgressBelowQueue ==
    \A i \in 1..Len(queue) :
        /\ indexedVersionInDb < queue[i].version
        /\ queuedIndexedProgress < queue[i].version

\* C3: after a stop at any point and a restart, once resumeIndex has run and
\* the queue is drained, the index rows are again exactly indexBy of the
\* source rows
C3_FreshAfterResume == (restarts > 0 /\ Quiescent) => IndexFresh

\* ------------------------------------------------------------------------
\* Properties of the instances
\* ------------------------------------------------------------------------
\* C11 as stated: at no time do two live instances of the class have the same id
C11_NoTwoLiveWithOneId ==
    \A h1 \in Live, h2 \in Live : h1 # h2 => instanceId[h1] # instanceId[h2]
\* C11: for(id) returns the instance it returned on the call before, until
\* that instance is collected or remove(id) takes it from the map; an instance
\* is in the map under its own id only
C11_SameUntilEvictedOrRemoved ==
    \A id \in Ids :
        /\ lastFor[id] # 0 => ForResult(id) = lastFor[id]
        /\ Canonical(id) # 0 => instanceId[Canonical(id)] = id
\* remove(id) took an instance the caller still holds from the map, and for(id)
\* has returned a new one since: both are live
C11_Witness ==
    \E id \in Ids, h \in held :
        /\ lastFor[id] # 0
        /\ h # lastFor[id]
        /\ instanceId[h] = id

\* C21: a method called through a class wrapped by allow(permissions) runs
\* the underlying method only if the permission check returned exactly true;
\* otherwise the call fails with an AccessError, the underlying method is not
\* invoked and no entity or batcher state changes
C21_DeniedCallFails ==
    /\ access.invoked => (access.checked /\ access.permitted = "true")
    /\ (access.name # "-" /\ access.permitted # "true") =>
          /\ access.error
          /\ ~access.invoked
          /\ ~access.changed

\* ------------------------------------------------------------------------
\* Properties of register
\* ------------------------------------------------------------------------
\* register found a record whose dbVersion differs from the class's
Mismatched ==
    /\ registration.resetAllCalls > 0
    /\ registration.dbVersion # 1
\* C12: when register reads a stored dbVersion that differs from the class's,
\* every row stored before is cleared from the table before onReady fires,
\* for every kind of class
C12_ClearedBeforeReady ==
    (registration.ready /\ Mismatched)
        => \A id \in Ids : db[id].json = "-"

C14_EvictionKeepsValue ==
    [][ClearCache => \A id \in LiveIds : ValueOf(id)' = ValueOf(id)]_vars

\* ------------------------------------------------------------------------
\* Properties of a burst of puts
\* ------------------------------------------------------------------------
\* the operations of a list other than the put of the lastVersion marker
EntityOperations(list) ==
    Cardinality({i \in 1..Len(list) : list[i].key # LAST_VERSION_IN_DB_KEY})
\* C15: no batch passed to the engine holds more than 100 entity operations
C15_AtMost100PerBatch ==
    \A i \in 1..Len(handed) :
        EntityOperations(batches[handed[i]].operations) <= MaxBatchWrites

\* the batch holds more than 100 operations or more than 100000 bytes
OverThreshold(batch) ==
    \/ Len(batch.order) > MaxBatchWrites
    \/ batch.writeSize > MaxBatchBytes
\* C24: a dbPut flushes the open batch at once exactly when, after the
\* operation is recorded, the batch holds more than 100 operations or its
\* cumulative value byte count exceeds 100000
C24_FlushExactlyOverThreshold ==
    [][opCount' # opCount =>
          \A b \in 1..Len(batches') :
              (b > Len(batches) \/ batches[b].state = "open") =>
                 ((batches'[b].state # "open") <=> OverThreshold(batches'[b]))]_vars

\* ------------------------------------------------------------------------
\* Properties of indexEntry
\* ------------------------------------------------------------------------
EntryKeysOf(list) == {list[i].key : i \in 1..Len(list)}
\* the value the previous state has under key: the last entry of the key
PreviousValue(key) ==
    entryCall.previous[CHOOSE i \in 1..Len(entryCall.previous) :
        /\ entryCall.previous[i].key = key
        /\ \A j \in (i + 1)..Len(entryCall.previous) :
              entryCall.previous[j].key # key].value
CountOps(type, key, value) ==
    Cardinality({i \in 1..Len(entryCall.ops) :
        /\ entryCall.ops[i].type = type
        /\ entryCall.ops[i].key = key
        /\ entryCall.ops[i].value = value
        /\ entryCall.ops[i].id = 1})
\* one del for every key of indexBy(P) that indexBy(V) lacks, or for every
\* key of indexBy(P) when the request is deleted
DelsAsStated ==
    \A key \in EntryKeys :
        CountOps("del", key, Absent) =
           IF /\ key \in EntryKeysOf(entryCall.previous)
              /\ (entryCall.deleted \/ key \notin EntryKeysOf(entryCall.current))
           THEN 1 ELSE 0
\* the entry of indexBy(V) is new, or its value differs from the previous one
NewOrDiffers(i) ==
    LET entry == entryCall.current[i]
    IN \/ entry.key \notin EntryKeysOf(entryCall.previous)
       \/ entry.value # PreviousValue(entry.key)
\* the key of the entry occurs earlier in indexBy(V)
Repeated(i) ==
    \E j \in 1..(i - 1) : entryCall.current[j].key = entryCall.current[i].key
PutsOf(indices) ==
    \A key \in EntryKeys : \A value \in EntryValues :
        CountOps("put", key, value) =
           Cardinality({i \in indices : entryCall.current[i] =
                                           [key |-> key, value |-> value]})
\* C28 as stated: indexEntry emits no operation for a key present in
\* indexBy(P) and indexBy(V) with equal value, one put for every entry of
\* indexBy(V) that is new or whose value differs, one del for every key of
\* indexBy(P) absent from indexBy(V), and for a deleted request one del per
\* key of indexBy(P) and no put
C28_PutsNewOrDiffering ==
    entryCall.called =>
       /\ DelsAsStated
       /\ PutsOf(IF entryCall.deleted THEN {}
                 ELSE {i \in 1..Len(entryCall.current) : NewOrDiffers(i)})
       /\ Len(entryCall.ops) <= Len(entryCall.previous) + Len(entryCall.current)
\* C28: the same, except that an entry of indexBy(V) whose key occurs earlier
\* in indexBy(V) is always put: only the first entry of a key is compared
\* with the previous state
C28_PutsFirstDifferingAndRepeats ==
    entryCall.called =>
       /\ DelsAsStated
       /\ PutsOf(IF entryCall.deleted THEN {}
                 ELSE {i \in 1..Len(entryCall.current) :
                          NewOrDiffers(i) \/ Repeated(i)})
       /\ \A i \in 1..Len(entryCall.ops) : \A j \in 1..Len(entryCall.ops) :
             (entryCall.ops[i].type = "put" /\ entryCall.ops[j].type = "del")
                => i < j
\* the previous state and the value have the same entry, the value has it
\* twice: the second is put
C28_Witness ==
    /\ entryCall.called
    /\ ~entryCall.deleted
    /\ Len(entryCall.current) = 2
    /\ entryCall.current[1] = entryCall.current[2]
    /\ entryCall.previous = <<entryCall.current[1]>>
    /\ Len(entryCall.ops) = 1
    /\ entryCall.ops[1].type = "put"

\* C31: when the class tracks previous values, the event of updated(event)
\* and of remove(id) holds in previousValues the value the entity had before
\* the call
C31_PreviousValueIsValueBefore ==
    event.type # "none" => event.previousValues = event.valueBefore

\* C32 (as stated): the event of an update that has written a row, the
\* invalidation row of updated() or the delete row of remove(), carries as
\* whenWritten the promise of the batch that holds the row, which resolves
\* only once that batch has been passed to the engine
C32_WhenWrittenIsBatchOfRow ==
    event.batch # 0 =>
        /\ event.whenWritten = event.batch
        /\ Resolved(event.whenWritten) => Handed(event.batch)
\* C32 (amended): the event of updated() on an instance of a cached class
\* carries as whenWritten the promise of the batch that holds its
\* invalidation row, which resolves only once that batch has been passed to
\* the engine; the event of remove(id) is given no whenWritten
C32_WhenWrittenOfUpdated ==
    /\ (event.type = "replaced" /\ event.batch # 0) =>
           /\ event.whenWritten = event.batch
           /\ Resolved(event.whenWritten) => Handed(event.batch)
    /\ event.type = "deleted" => event.whenWritten = 0
\* C32 witness: the invalidation row of an updated() went into a batch opened
\* while another was at the engine, and its whenWritten has resolved
C32_Witness ==
    /\ event.type = "replaced"
    /\ event.batch > 1
    /\ event.whenWritten = event.batch
    /\ batches[event.batch].state = "done"

\* C33: set value on an instance that is not the one the map holds for its
\* id puts no write into a batch and sends no AddedEvent: the table, the
\* batches, pendingWrites and the class's lastVersion are as before
C33_DroppedSetWritesNothing ==
    [][(lastSet'.count # lastSet.count /\ ~lastSet'.canonical) =>
          UNCHANGED <<db, dbLastVersion, batches, pendingWrites,
                      currentWriteBatch, writeCompletion, lastVersion, handed,
                      pendingAdded>>]_vars
\* C33 witness: the value was set on an instance obtained before remove(id),
\* while the row of the remove was waiting in a batch
C33_Witness ==
    /\ lastSet.count > 0
    /\ ~lastSet.canonical
    /\ lastSet.instance \in held
    /\ instancesById[instanceId[lastSet.instance]] = 0
    /\ pendingWrites # <<>>

\* C34: register() on a class whose name is already registered fails and
\* leaves pendingWrites, currentWriteBatch and writeCompletion as they were,
\* so that dbGet still sees the operations pending before the call
C34_RegisterAgainKeepsBatcher ==
    [][registration'.alreadyRegistered # registration.alreadyRegistered =>
          /\ UNCHANGED <<pendingWrites, currentWriteBatch, writeCompletion>>
          /\ \A key \in Ids : DbGet(key)' = DbGet(key)]_vars

\* C35: the value in the row LAST_INDEXED_VERSION never decreases from one
\* step of processQueue to the next, and a queued progress is never lower than
\* the value in the row: the progress a commit's sendUpdates completion
\* queues is queued before a later commit queues or writes its own
C35_StoredProgressNeverDecreases ==
    [][/\ pass'.inDb >= pass.inDb
       /\ pass'.queuedIndexedProgress # 0
              => pass'.queuedIndexedProgress >= pass'.inDb]_vars

\* a later commit's batch has written the progress an earlier commit queued,
\* and a larger progress has been put into the row after it
C35_Witness ==
    /\ pass.phase = "done"
    /\ pass.byBatch > 0
    /\ pass.inDb > pass.byBatch

\* C30: resumeIndex clears the index table when the stored
\* LAST_INDEXED_VERSION is zero; and, whatever it is, after resumeIndex no
\* index row survives for a source id whose row was changed at a version
\* above it, the queue holds exactly one request for each such id and for no
\* other, and processing is requested
ChangedSince(watermark) == {id \in Ids : changedAt[id] > watermark}
RequestsOf(requests, id) == {i \in 1..Len(requests) : requests[i].id = id}
C30_ResumeQueuesChanged ==
    [][(processing = "stopped" /\ processing' = "scheduled") =>
          /\ indexedVersionInDb = 0 =>
                \A row \in IndexRows : indexDb'[row] = Absent
          /\ \A id \in ChangedSince(indexedVersionInDb) :
                /\ \A row \in IndexRows : row[2] = id => indexDb'[row] = Absent
                /\ Cardinality(RequestsOf(queue', id)) = 1
          /\ \A i \in 1..Len(queue') :
                queue'[i].id \in ChangedSince(indexedVersionInDb)
          /\ whenProcessingComplete']_vars

\* C29: during processQueue at most MAX_CONCURRENCY indexEntry calls are in
\* flight, and the pending operations are committed after at most
\* 2 x MAX_CONCURRENCY entries have been processed since the last commit
C29_ConcurrencyBounded ==
    /\ pass.inFlight <= DEFAULT_INDEXING_CONCURRENCY
    /\ pass.uncommitted <= 2 * DEFAULT_INDEXING_CONCURRENCY

\* ------------------------------------------------------------------------
\* Properties of a rebuild
\* ------------------------------------------------------------------------
IsPrefix(short, long) ==
    /\ Len(short) <= Len(long)
    /\ \A i \in 1..Len(short) : long[i] = short[i]
\* C16: no index operation computed before rebuildIndex cleared the table is
\* passed to the engine after the clear
C16_NothingStaleWritten ==
    (rebuilt /\ clearedOver # <<>> /\ indexBatch # <<>>)
        => ~IsPrefix(clearedOver, indexBatch.ops)

\* ------------------------------------------------------------------------
\* Properties of a restart
\* ------------------------------------------------------------------------
\* the instance of the id last set has been loaded after the restart
LoadedAfterRestart ==
    /\ restarts > 0
    /\ written.batch # 0
    /\ entities[written.id].readyState # "none"
\* the loaded instance holds what set value wrote
HoldsWritten ==
    LET e == entities[written.id]
    IN /\ e.readyState = "up-to-date"
       /\ e.asJSON = written.json
       /\ GetVersionProperty(e) = written.version
C20_FailureSwallowed ==
    /\ inFlight # {} => indexState = "processing"
    /\ (failed # {} /\ indexState = "processed") =>
          /\ inFlight = {}
          /\ operations = <<>>
          /\ indexBatch = <<>>
\* indexEntry failed for entity 1; entity 2 is indexed, its entries are in
\* the table and the pass is over
C20_Witness ==
    /\ failed = {1}
    /\ indexState = "processed"
    /\ opCount = 2
    /\ \E key \in {"k1", "k2", "k3"} : indexDb[<<key, 2>>] # Absent

\* ------------------------------------------------------------------------
\* Properties of the index's state
\* ------------------------------------------------------------------------
Round ==
    {<<"ready", "pending">>, <<"pending", "processing">>,
     <<"processing", "processed">>, <<"processed", "ready">>}
\* whenProcessingComplete is set in the states of a round and absent in ready
PromiseFollowsState ==
    /\ indexState' \in {"pending", "processing", "processed"}
          => whenProcessingComplete'
    /\ indexState' = "ready" => ~whenProcessingComplete'
DownUnwritten ==
    \/ down.queue # {}
    \/ down.state \in {"pending", "processing"}
\* C25: commitOperations keeps the order data -> updates -> progress: when a
\* value becomes durable under LAST_INDEXED_VERSION, every index operation
\* computed so far is durable and every update sent downstream for the keys
\* of those operations has been written by the downstream
C25_DataUpdatesProgress ==
    [][indexedVersionInDb' > indexedVersionInDb =>
          /\ operations' = <<>>
          /\ indexBatch' = <<>>
          /\ ~DownUnwritten]_vars

====
